---- MODULE Spec2Model ----
(***************************************************************************)
(* Continuation freeze/thaw (continuationFreezeThaw.cpp) as a state        *)
(* machine at machine-word granularity, x86_64 frame layout.               *)
(*                                                                         *)
(* Addresses are word addresses.  The native stack grows down from the     *)
(* continuation entry: stk[i] is the word at address entrySP - i, and only *)
(* the live part of the stack is kept.  A chunk's word array is            *)
(* ch.words, offset o being ch.words[o + 1].                               *)
(***************************************************************************)
EXTENDS Integers, Sequences, FiniteSets, TLC

VARIABLES
  stk,      \* live native stack words below the entry
  curPc,    \* pc of the running (topmost) Java frame; NullPc when none runs
  chunks,   \* the heap: sequence of stack chunks, a chunk's id is its index
  tail,     \* the continuation object's tail field (0 = null)
  entry,    \* the ContinuationEntry: [argsize, pinned]
  thr,      \* the carrier JavaThread: [cont_fastpath, held_monitor_count, anchor, pending_exception, interp_only]
  locks,    \* addresses (sp) of the frames that own a monitor
  pc,       \* where the carrier is: in Java, inside freeze/thaw, unmounted
  op,       \* the locals of the running Freeze/Thaw object
  pre,      \* the state at the entry to the running freeze/thaw call
  trace,    \* the events of the running freeze call, in order
  nfreeze,  \* the number of freeze calls so far
  last,     \* the last freeze that succeeded, while no Java code has run since
  thawWalk, \* a slow thaw of a chunk with interpreted and compiled frames
  pinWalk   \* an is_pinned0 query over nested continuation entries

vars == <<stk, curPc, chunks, tail, entry, thr, locks, pc, op, pre, trace, nfreeze, last,
          thawWalk, pinWalk>>

----------------------------------------------------------------------------
(* Bounds of the model *)

MaxFrames == 3   \* frames of the continuation in existence (stack and chunks)
MaxFreezes == 3  \* freeze calls in a run; each allocates at most one chunk
StackRoom == 800 \* words of native stack below the entry of a carrier with room to thaw
StackRoomLow == 150 \* the same of a carrier that is deep in its stack

----------------------------------------------------------------------------
(* Program constants *)

freeze_ok             == 0
freeze_ok_bottom      == 1
freeze_pinned_cs      == 2
freeze_pinned_native  == 3
freeze_pinned_monitor == 4
freeze_exception      == 5

thaw_top            == 0
thaw_return_barrier == 1
thaw_exception      == 2

threshold == 500     \* thaw_fast: below it the whole chunk is thawed

metadata_words == 2               \* frame::metadata_words (saved fp, return pc)
sender_sp_ret_address_offset == 1 \* the return pc is at sp - 1
align_wiggle == 1                 \* frame::align_wiggle

entrySP == 4096      \* ContinuationEntry::entry_sp(), 16-byte aligned
NullPc  == 0         \* nullptr
NullChunk == 0

(* Word values.  A return address is the id of the method it returns     *)
(* into; the stubs have ids of their own.                                *)
ReturnBarrierPc == 20  \* StubRoutines::cont_returnBarrier()
EntryPc         == 21  \* ContinuationEntry::entry_pc(): return into enterSpecial
Junk            == 98  \* a word nobody has written (padding, fresh chunk memory)
Dirty           == 99  \* a stack argument the callee has overwritten

----------------------------------------------------------------------------
(* The code cache: the methods whose frames can be on the stack.          *)
(* CodeBlob::frame_size() and the stack-argument size by method.          *)

Methods == 1..8
IsNativeM(m)  == m = 5                 \* a native method: its frame has no oop map
IsCompiled(m) == m \in Methods \ {5}   \* nmethod with an oop map
Roots == {1, 8}                       \* Continuation.enter, inlined into little or much
IsSynchronized(m) == m = 6             \* holds a monitor while its frame exists
IsCritical(m) == m = 7                 \* runs between Continuation.pin and unpin
StoresArg(m)  == m = 4                 \* assigns to its stack-passed parameter

\* the call graph: 1 and 8 are Continuation.enter, the bottom-most frame
Callees(m) ==
  CASE m = 1 -> {2, 3, 4, 5, 6, 7}
    [] m = 2 -> {3}
    [] m = 8 -> {2}
    [] m = 5 -> {3, 6}
    [] m = 7 -> {6}
    [] OTHER -> {}

FrameSize(m) ==
  CASE m = 3 -> 500
    [] m = 4 -> 500
    [] m = 8 -> 500
    [] m \in Methods -> 4
    [] OTHER -> 0

StackArgsize(m) ==
  CASE m = 2 -> 1
    [] m = 3 -> 2
    [] m = 4 -> 1
    [] OTHER -> 0

FpVal(m) == 50 + m                \* the rbp value while a frame of m runs
Local(m, j) == 1000 * m + j       \* the j-th spill/local word of a frame of m

----------------------------------------------------------------------------
(* Native stack helpers *)

Max(a, b) == IF a >= b THEN a ELSE b
Min(a, b) == IF a <= b THEN a ELSE b

StackTopOf(s) == entrySP - Len(s)           \* lowest live address
WordAt(s, a)  == s[entrySP - a]             \* the word at address a

\* the stack s with the words [to, to+size) replaced by val[a]
StackWrite(s, to, size, val) ==
  [i \in 1..Max(Len(s), entrySP - to) |->
     LET a == entrySP - i IN
       IF a >= to /\ a < to + size THEN val[a]
       ELSE IF i <= Len(s) THEN s[i] ELSE Junk]

\* ContinuationHelper::frame_align_words (x86_64): one padding word for an odd size
frame_align_words(size) == size % 2

\* ContinuationHelper::frame_align_pointer (x86_64): align down to 16 bytes
frame_align_pointer(p) == p - (p % 2)

----------------------------------------------------------------------------
(* Stack chunks *)

NewChunk(stack_size, parent) ==
  [stack_size |-> stack_size, sp |-> stack_size, argsize |-> 0, max_size |-> 0,
   pc |-> NullPc, parent |-> parent, mixed |-> FALSE, gc_mode |-> FALSE,
   bitmap |-> FALSE, barriers |-> FALSE,
   words |-> [o \in 1..stack_size |-> Junk],
   fast_only |-> TRUE]   \* ghost: no slow freeze wrote it, no slow thaw read it

ChunkWord(ch, o) == ch.words[o + 1]

\* stackChunkOopDesc::is_empty
is_empty(ch) == ch.sp >= ch.stack_size - ch.argsize

requires_barriers(ch) == ch.barriers
is_gc_mode(ch)        == ch.gc_mode
has_mixed_frames(ch)  == ch.mixed
has_bitmap(ch)        == ch.bitmap

\* stackChunkOopDesc::has_thaw_slowpath_condition: any flag set
has_thaw_slowpath_condition(ch) == ch.mixed \/ ch.gc_mode \/ ch.bitmap

\* stackChunkOopDesc::copy_from_stack_to_chunk: chunk offsets [to, to+size)
\* receive the stack words [from, from+size)
copy_from_stack_to_chunk(ch, s, from, to, size) ==
  [ch EXCEPT !.words =
     [o \in 1..ch.stack_size |->
        IF o - 1 >= to /\ o - 1 < to + size
        THEN WordAt(s, from + (o - 1 - to))
        ELSE ch.words[o]]]

\* stackChunkOopDesc::copy_from_chunk_to_stack: stack words [to, to+size)
\* receive the chunk offsets [from, from+size)
copy_from_chunk_to_stack(ch, s, from, to, size) ==
  StackWrite(s, to, size, [a \in to..(to + size - 1) |-> ChunkWord(ch, from + (a - to))])

\* ContinuationWrapper::nonempty_chunk / last_nonempty_chunk
nonempty_chunk(hp, c) ==
  IF c = NullChunk \/ ~is_empty(hp[c]) THEN c ELSE hp[c].parent

\* ContinuationWrapper::is_empty
cont_is_empty(hp, t) == nonempty_chunk(hp, t) = NullChunk

\* the chunks reachable from c by parent links
RECURSIVE ChunkList(_, _)
ChunkList(hp, c) ==
  IF c = NullChunk THEN <<>> ELSE <<c>> \o ChunkList(hp, hp[c].parent)

Reachable(hp, t) == {ChunkList(hp, t)[i] : i \in 1..Len(ChunkList(hp, t))}

\* the heap after the collector has freed the chunks not reachable from
\* tail t: the survivors keep their order, ids are indices
Survivors(hp, t) == {c \in 1..Len(hp) : c \in Reachable(hp, t)}
NewId(hp, t, c) == IF c = NullChunk THEN NullChunk
                   ELSE Cardinality({d \in Survivors(hp, t) : d <= c})
RECURSIVE CollectFrom(_, _, _)
CollectFrom(hp, t, c) ==
  IF c > Len(hp) THEN <<>>
  ELSE (IF c \in Survivors(hp, t)
        THEN <<[hp[c] EXCEPT !.parent = NewId(hp, t, @)]>> ELSE <<>>)
       \o CollectFrom(hp, t, c + 1)
Collect(hp, t) == CollectFrom(hp, t, 1)

----------------------------------------------------------------------------
(* Frames *)

\* the frames on the native stack s from the frame of method m at sp,
\* topmost first, up to the frame whose caller is not a Java method
RECURSIVE StackFrames(_, _, _)
StackFrames(s, sp, m) ==
  IF m \notin Methods \/ sp >= entrySP THEN <<>>
  ELSE <<[sp |-> sp, m |-> m]>>
       \o StackFrames(s, sp + FrameSize(m), WordAt(s, sp + FrameSize(m) - 1))

\* StackChunkFrameStream: the frames of a chunk from offset o with pc m,
\* topmost first; the stream ends at stack_size - argsize
RECURSIVE ChunkFramesFrom(_, _, _)
ChunkFramesFrom(ch, o, m) ==
  IF o >= ch.stack_size - ch.argsize \/ m \notin Methods THEN <<>>
  ELSE <<[sp |-> o, m |-> m]>>
       \o ChunkFramesFrom(ch, o + FrameSize(m), ChunkWord(ch, o + FrameSize(m) - 1))

ChunkFrames(ch) == ChunkFramesFrom(ch, ch.sp, ch.pc)

RECURSIVE FrozenFrameCount(_, _)
FrozenFrameCount(hp, c) ==
  IF c = NullChunk THEN 0
  ELSE Len(ChunkFrames(hp[c])) + FrozenFrameCount(hp, hp[c].parent)

\* the frames of the mounted continuation while Java runs
JavaFrames == StackFrames(stk, StackTopOf(stk), curPc)

----------------------------------------------------------------------------
(* Initial state: a continuation that has just been entered.  The        *)
(* enterSpecial frame has called Continuation.enter (method 1), which    *)
(* takes no stack arguments.                                             *)

\* Freeze<ConfigT> fr(current, cont, false): freeze_internal never freezes in
\* forced-preempt mode
FreezePreempt == FALSE

OpNone ==
  [frame_sp |-> 0, wtail |-> NullChunk, barriers |-> FALSE, size |-> 0,
   align_size |-> 0, res |-> 0, cont_size |-> 0, chunk_start_sp |-> 0,
   chunk_new_sp |-> 0, kind |-> 0, path |-> "none", ret |-> 0,
   allocated |-> FALSE, thawed |-> 0, frames |-> <<>>, argsize |-> 0,
   room |-> 0, caller |-> [sp |-> 0, pc |-> 0, fp |-> 0],
   preempt |-> FreezePreempt, cause |-> "none", error |-> "none",
   wlo |-> 0, whi |-> 0]

ThrNone ==
  [cont_fastpath |-> 0, held_monitor_count |-> 0, anchor |-> "none",
   pending_exception |-> FALSE, interp_only |-> FALSE]

PreNone == [stk |-> <<>>, chunks |-> <<>>, tail |-> NullChunk, argsize |-> 0, thr |-> ThrNone]

\* the shape of the chunk list of tail t: the tail and, for each chunk of
\* the list, its parent and its stack_size
Shape(hp, t) ==
  [tail |-> NewId(hp, t, t),
   list |-> [c \in 1..Len(Collect(hp, t)) |->
               [parent |-> Collect(hp, t)[c].parent,
                stack_size |-> Collect(hp, t)[c].stack_size]]]

LastNone ==
  [valid |-> FALSE, complete |-> FALSE, stk |-> <<>>, top |-> 0, size |-> 0,
   path |-> "none", shape |-> [tail |-> NullChunk, list |-> <<>>], overlap |-> FALSE]

Snapshot(s, t) ==
  [stk |-> s, chunks |-> chunks, tail |-> tail, argsize |-> entry.argsize, thr |-> t]

MainInit ==
  /\ \E root \in Roots :
       /\ stk = <<EntryPc, 50>> \o [j \in 1..(FrameSize(root) - metadata_words) |-> Local(root, j)]
       /\ curPc = root
  /\ chunks = <<>>
  /\ tail = NullChunk
  /\ entry = [argsize |-> 0, pinned |-> FALSE]
  /\ thr = ThrNone
  /\ locks = {}
  /\ pc = "java"
  /\ op = OpNone
  /\ pre = PreNone
  /\ last = LastNone
  /\ trace = <<>>
  /\ nfreeze = 0

\* no slow thaw of a mixed chunk and no is_pinned0 query is under way
WalkIdle == [phase |-> "idle"]
PinIdle  == [phase |-> "idle"]

Init == MainInit /\ thawWalk = WalkIdle /\ pinWalk = PinIdle

----------------------------------------------------------------------------
(* Java execution between freezes and thaws (the environment) *)

\* the running frame calls method m: return pc, saved rbp, then the locals
JavaCall(m) ==
  /\ pc = "java"
  /\ curPc \in Methods
  /\ m \in Callees(curPc)
  /\ Len(JavaFrames) + FrozenFrameCount(chunks, tail) < MaxFrames
  /\ stk' = stk \o <<curPc, FpVal(curPc)>>
                \o [j \in 1..(FrameSize(m) - metadata_words) |-> Local(m, j)]
  /\ curPc' = m
     \* Java entered from a native frame goes through the interpreter entry,
     \* which raises the thread's fast-path marker; a synchronized method
     \* enters its monitor
  /\ thr' = [thr EXCEPT
       !.cont_fastpath = IF IsNativeM(curPc) THEN Max(@, StackTopOf(stk)) ELSE @,
       !.held_monitor_count = IF IsSynchronized(m) THEN @ + 1 ELSE @]
  /\ locks' = IF IsSynchronized(m) THEN locks \cup {StackTopOf(stk')} ELSE locks
  /\ entry' = IF IsCritical(m) THEN [entry EXCEPT !.pinned = TRUE] ELSE entry
  /\ last' = LastNone
  /\ UNCHANGED <<thawWalk, pinWalk, nfreeze, chunks, tail, pc, op, pre, trace>>

\* the running frame overwrites one of its incoming stack arguments
JavaStoreArg(i) ==
  /\ pc = "java"
  /\ StoresArg(curPc)
  /\ i < StackArgsize(curPc)
  /\ LET a == StackTopOf(stk) + FrameSize(curPc) + i IN
       /\ WordAt(stk, a) # Dirty
       /\ stk' = [stk EXCEPT ![entrySP - a] = Dirty]
  /\ last' = LastNone
  /\ UNCHANGED <<thawWalk, pinWalk, nfreeze, curPc, chunks, tail, entry, thr, locks, pc, op, pre, trace>>

\* the running frame returns: to its caller on the stack, into enterSpecial
\* (the continuation is done), or into the return barrier (thaw)
JavaReturn ==
  /\ pc = "java"
  /\ curPc \in Methods
  /\ LET sp    == StackTopOf(stk)
         retpc == WordAt(stk, sp + FrameSize(curPc) - sender_sp_ret_address_offset)
     IN
       /\ locks' = locks \ {sp}
       /\ thr' = [thr EXCEPT !.held_monitor_count = IF sp \in locks THEN @ - 1 ELSE @]
       /\ entry' = IF IsCritical(curPc) THEN [entry EXCEPT !.pinned = FALSE] ELSE entry
       /\ \/ /\ retpc \in Methods
             /\ stk' = SubSeq(stk, 1, Len(stk) - FrameSize(curPc))
             /\ curPc' = retpc
             /\ UNCHANGED <<pc, op, pre>>
          \/ /\ retpc = EntryPc
             /\ stk' = <<>>
             /\ curPc' = NullPc
             /\ pc' = "done"
             /\ UNCHANGED <<op, pre>>
          \/ /\ retpc = ReturnBarrierPc
             /\ stk' = <<>>
             /\ curPc' = NullPc
             /\ pc' = "prepare_thaw"
             /\ op' = [OpNone EXCEPT !.kind = thaw_return_barrier]
             /\ pre' = Snapshot(stk, thr)
  /\ last' = LastNone
  /\ UNCHANGED <<thawWalk, pinWalk, nfreeze, chunks, tail, trace>>

----------------------------------------------------------------------------
(* The environment: the collector, JVMTI *)

\* the collector moves the tail chunk to where stores need barriers, or
\* turns it to GC mode, while the continuation is unmounted, or while it
\* runs with frames left in a tail chunk the collector has not yet seen
GCSeesChunk ==
  /\ pc \in {"frozen", "java"}
  /\ tail # NullChunk
  /\ pc = "java" => /\ ~is_empty(chunks[tail])
                    /\ ~requires_barriers(chunks[tail])
                    /\ ~has_thaw_slowpath_condition(chunks[tail])
  /\ \E how \in {"old", "gc_mode"} :
       /\ IF how = "old" THEN ~chunks[tail].barriers ELSE ~chunks[tail].gc_mode
       /\ chunks' = IF how = "old" THEN [chunks EXCEPT ![tail].barriers = TRUE]
                    ELSE [chunks EXCEPT ![tail].gc_mode = TRUE]
  /\ UNCHANGED <<thawWalk, pinWalk, nfreeze, last, stk, curPc, tail, entry, thr, locks, pc, op, pre, trace>>

\* JVMTI switches the thread to interpreter-only mode while it is unmounted
SetInterpOnly ==
  /\ pc = "frozen"
  /\ thr' = [thr EXCEPT !.interp_only = ~@]
  /\ UNCHANGED <<thawWalk, pinWalk, nfreeze, last, stk, curPc, chunks, tail, entry, locks, pc, op, pre, trace>>

----------------------------------------------------------------------------
(* Freeze: entry and choice of path *)

UseContinuationFastPath == TRUE
PreserveFramePointer    == FALSE

\* JavaThread::cont_fastpath(): no marker and not in interpreter-only mode
cont_fastpath(t) == t.cont_fastpath = 0 /\ ~t.interp_only

\* a faulty variant of can_freeze_fast that ignores the monitors
can_freeze_fast_monitors(t) == cont_fastpath(t) /\ UseContinuationFastPath

can_freeze_fast(t) ==
  /\ cont_fastpath(t)
  /\ UseContinuationFastPath
  /\ t.held_monitor_count = 0

ContStackTop(frame_sp)  == frame_sp + metadata_words
ContStackBottom(argsize) == entrySP - frame_align_words(argsize)
ContSize(frame_sp, argsize) == ContStackBottom(argsize) - ContStackTop(frame_sp)

\* a faulty variant of is_chunk_available_for_fast_freeze that wants room
\* for the overlapping stack arguments too
is_chunk_available_no_overlap(hp, c, frame_sp, argsize) ==
  IF c = NullChunk \/ is_gc_mode(hp[c]) \/ requires_barriers(hp[c]) \/ has_mixed_frames(hp[c])
  THEN FALSE
  ELSE hp[c].sp - metadata_words >= ContSize(frame_sp, argsize)

\* a faulty variant of is_chunk_available_for_fast_freeze that wants room
\* for the metadata words twice
is_chunk_available_less_room(hp, c, frame_sp, argsize) ==
  IF c = NullChunk \/ is_gc_mode(hp[c]) \/ requires_barriers(hp[c]) \/ has_mixed_frames(hp[c])
  THEN FALSE
  ELSE LET size0 == ContSize(frame_sp, argsize)
           size  == IF hp[c].sp < hp[c].stack_size THEN size0 - argsize ELSE size0
       IN hp[c].sp - 2 * metadata_words >= size

\* a faulty variant of is_chunk_available_for_fast_freeze that does not
\* compare the size with the room left
is_chunk_available_any_size(hp, c, frame_sp, argsize) ==
  IF c = NullChunk \/ is_gc_mode(hp[c]) \/ requires_barriers(hp[c]) \/ has_mixed_frames(hp[c])
  THEN FALSE
  ELSE TRUE

is_chunk_available_for_fast_freeze(hp, c, frame_sp, argsize) ==
  IF c = NullChunk \/ is_gc_mode(hp[c]) \/ requires_barriers(hp[c]) \/ has_mixed_frames(hp[c])
  THEN FALSE
  ELSE LET size0 == ContSize(frame_sp, argsize)
           size  == IF hp[c].sp < hp[c].stack_size THEN size0 - argsize ELSE size0
       IN hp[c].sp - metadata_words >= size

\* the yield stub pushes its frame (return pc, saved rbp), sets the anchor
\* and calls freeze(), which drops a fast-path marker lying outside the
\* continuation's frames
Yield ==
  /\ pc = "java"
  /\ IsCompiled(curPc)
  /\ nfreeze < MaxFreezes
  /\ LET sp == StackTopOf(stk) - metadata_words IN
       /\ stk' = stk \o <<curPc, FpVal(curPc)>>
       /\ thr' = [thr EXCEPT !.anchor = "yield",
                             !.cont_fastpath = IF @ > entrySP \/ @ < sp THEN 0 ELSE @]
       /\ op' = [OpNone EXCEPT !.frame_sp = sp, !.wtail = tail,
                               !.cont_size = ContSize(sp, entry.argsize)]
       /\ pre' = Snapshot(stk', thr')
  /\ pc' = "freeze_internal"
  /\ trace' = <<>>
  /\ nfreeze' = nfreeze + 1
  /\ UNCHANGED <<thawWalk, pinWalk, curPc, chunks, tail, entry, locks, last>>

FreezePath(t, hp, c, frame_sp, argsize) ==
  IF can_freeze_fast(t) /\ is_chunk_available_for_fast_freeze(hp, c, frame_sp, argsize)
  THEN "fast_reuse"
  ELSE IF can_freeze_fast(t) THEN "fast_alloc" ELSE "slow"

FreezeInternal ==
  /\ pc = "freeze_internal"
  /\ IF entry.pinned
     THEN /\ op' = [op EXCEPT !.res = freeze_pinned_cs, !.path = "pinned"]
          /\ pc' = "freeze_ret"
     ELSE LET path == FreezePath(thr, chunks, op.wtail, op.frame_sp, entry.argsize) IN
          /\ op' = [op EXCEPT !.path = path]
          /\ pc' = CASE path = "fast_reuse" -> "ff_reuse"
                     [] path = "fast_alloc" -> "ff_allocate"
                     [] OTHER -> "fs_walk"
  /\ UNCHANGED <<thawWalk, pinWalk, nfreeze, last, stk, curPc, chunks, tail, entry, thr, locks, pre, trace>>

----------------------------------------------------------------------------
(* Freeze: fast path (Freeze::freeze_fast) *)

\* a faulty variant of FastOverlapMaxSize that counts the overlap twice
FastOverlapMaxSizeNoOverlap(ch, cont_size, argsize) == ch.max_size + cont_size

\* a faulty variant of FastOverlapMaxSize that sets max_size as for an empty
\* chunk
FastOverlapMaxSizeOverwrites(ch, cont_size, argsize) == cont_size

\* ch.max_size when freezing cont_size words on top of a non-empty chunk
FastOverlapMaxSize(ch, cont_size, argsize) == ch.max_size + cont_size - argsize

\* FreezeBase::patch_stack_pd: the saved rbp below the bottom frame is
\* refreshed from the chunk
patch_stack_pd(s, frame_sp, ch, heap_sp) ==
  [s EXCEPT ![entrySP - (frame_sp - metadata_words)] = ChunkWord(ch, heap_sp - metadata_words)]

\* chunk_available: the tail chunk is reused
FastReuse ==
  /\ pc = "ff_reuse"
  /\ LET c  == op.wtail
         ch == chunks[c]
         argsize == entry.argsize
         bottom_sp == ContStackBottom(argsize) - argsize
     IN IF ch.sp < ch.stack_size
        THEN /\ chunks' = [chunks EXCEPT ![c].max_size = FastOverlapMaxSize(ch, op.cont_size, argsize)]
             /\ stk' = patch_stack_pd(stk, bottom_sp, ch, ch.sp)
             /\ op' = [op EXCEPT !.chunk_start_sp = ch.sp + argsize]
        ELSE /\ chunks' = [chunks EXCEPT ![c].max_size = op.cont_size, ![c].argsize = argsize]
             /\ stk' = stk
             /\ op' = [op EXCEPT !.chunk_start_sp = ch.sp]
  /\ pc' = "ff_unwind"
  /\ trace' = Append(trace, "header_write")
  /\ UNCHANGED <<thawWalk, pinWalk, nfreeze, last, curPc, tail, entry, thr, locks, pre>>

\* a faulty variant of throw_exception that has unwound the frames first
throw_exception_unwound(t) == [t EXCEPT !.pending_exception = TRUE, !.anchor = "entry"]

\* an exception (StackOverflowError, OutOfMemoryError) is made pending
throw_exception(t) == [t EXCEPT !.pending_exception = TRUE]

\* a faulty variant of allocate_chunk that rounds the size up to a word more
allocate_chunk_padded(hp, wtail, stack_size, barriers) ==
  Append(hp, [NewChunk(stack_size + 1, nonempty_chunk(hp, wtail)) EXCEPT !.barriers = barriers])

\* Freeze::allocate_chunk on a heap with room: the new chunk, its parent the
\* last non-empty chunk
\* a faulty variant of allocate_chunk that links the new chunk to the tail,
\* empty or not
allocate_chunk_on_tail(hp, wtail, stack_size, barriers) ==
  Append(hp, [NewChunk(stack_size, wtail) EXCEPT !.barriers = barriers])

allocate_chunk(hp, wtail, stack_size, barriers) ==
  Append(hp, [NewChunk(stack_size, nonempty_chunk(hp, wtail)) EXCEPT !.barriers = barriers])

\* a faulty variant of FreezeError that leaves the humongous case to the caller
FreezeErrorNotOnHumongous(cause, preempt) ==
  IF cause = "oome" THEN "OutOfMemoryError"
  ELSE IF preempt \/ cause = "humongous" THEN "none" ELSE "StackOverflowError"

\* the exception a failing freeze leaves pending: stack_overflow and
\* allocate_chunk throw StackOverflowError unless preempting, the allocator
\* has thrown OutOfMemoryError when it returns null
FreezeError(cause, preempt) ==
  IF cause = "oome" THEN "OutOfMemoryError"
  ELSE IF preempt THEN "none" ELSE "StackOverflowError"

\* the thread after a failing freeze
ThreadAfterError(t, cause, preempt) ==
  IF FreezeError(cause, preempt) # "none" THEN throw_exception(t) ELSE t

AllocOutcomes == {"tlab", "slow", "slow_barriers", "slow_deopt", "oome", "humongous"}
AllocFails(out) == out \in {"oome", "humongous"}
AllocSafepoints(out) == out \in {"slow", "slow_barriers", "slow_deopt", "oome"}

AllocEvents(out) ==
  (IF AllocSafepoints(out) THEN <<"safepoint">> ELSE <<>>)
  \o (IF AllocFails(out) THEN <<"exception">> ELSE <<"alloc">>)

\* a faulty variant of FastAllocRetries that looks at the barriers only
FastAllocRetriesOnBarriersOnly(t, barriers) == barriers

\* freeze_fast gives up after the allocation: the thread has lost
\* cont_fastpath, or the new chunk requires barriers
FastAllocRetries(t, barriers) == ~cont_fastpath(t) \/ barriers

\* no chunk available: allocate one
FastAllocate ==
  /\ pc = "ff_allocate"
  /\ \E out \in AllocOutcomes :
       /\ trace' = trace \o AllocEvents(out)
                     \o (IF out \in {"tlab", "slow"} THEN <<"header_write">> ELSE <<>>)
       /\ IF AllocFails(out)
          THEN \* allocate_chunk returned null: freeze_exception when an exception
               \* is pending, a retry on the slow path otherwise
               /\ thr' = ThreadAfterError(thr, out, op.preempt)
               /\ IF thr'.pending_exception
                  THEN /\ op' = [op EXCEPT !.res = freeze_exception, !.cause = out,
                                           !.error = FreezeError(out, op.preempt)]
                       /\ pc' = "freeze_ret"
                  ELSE /\ op' = [op EXCEPT !.path = "slow_retry"]
                       /\ pc' = "fs_walk"
               /\ UNCHANGED chunks
          ELSE LET hp == allocate_chunk(chunks, op.wtail, op.cont_size + metadata_words,
                                        out = "slow_barriers")
                   c  == Len(hp)
                   t  == IF out = "slow_deopt"
                         THEN [thr EXCEPT !.cont_fastpath = ContStackTop(op.frame_sp)]
                         ELSE thr
               IN /\ thr' = t
                  /\ IF FastAllocRetries(t, out = "slow_barriers")
                     THEN \* retry on the slow path
                          /\ chunks' = hp
                          /\ op' = [op EXCEPT !.wtail = c, !.barriers = (out = "slow_barriers"),
                                              !.allocated = TRUE, !.path = "slow_retry"]
                          /\ pc' = "fs_walk"
                     ELSE /\ chunks' = [hp EXCEPT ![c].max_size = op.cont_size,
                                                  ![c].argsize = entry.argsize]
                          /\ op' = [op EXCEPT !.wtail = c, !.allocated = TRUE,
                                              !.chunk_start_sp = op.cont_size + metadata_words]
                          /\ pc' = "ff_unwind"
  /\ UNCHANGED <<thawWalk, pinWalk, nfreeze, last, stk, curPc, tail, entry, locks, pre>>

\* a faulty variant of FastUnwind that leaves the frames in place
FastUnwindSkipped ==
  /\ pc = "ff_unwind"
  /\ pc' = "ff_copy"
  /\ UNCHANGED <<thawWalk, pinWalk, nfreeze, last, stk, curPc, chunks, tail, entry, thr, locks, op, pre, trace>>

\* FreezeBase::unwind_frames: the anchor is reset to the entry
FastUnwind ==
  /\ pc = "ff_unwind"
  /\ thr' = [thr EXCEPT !.anchor = "entry"]
  /\ trace' = Append(trace, "unwind")
  /\ pc' = "ff_copy"
  /\ UNCHANGED <<thawWalk, pinWalk, nfreeze, last, stk, curPc, chunks, tail, entry, locks, op, pre>>

ChunkNewSp(chunk_start_sp, cont_size) == chunk_start_sp - cont_size

\* copy_to_chunk of the frames and the metadata words below them
FastCopy ==
  /\ pc = "ff_copy"
  /\ LET c == op.wtail
         chunk_new_sp == ChunkNewSp(op.chunk_start_sp, op.cont_size)
         from == ContStackTop(op.frame_sp) - metadata_words
         to   == chunk_new_sp - metadata_words
     IN /\ chunks' = [chunks EXCEPT ![c] =
                        copy_from_stack_to_chunk(@, stk, from, to, op.cont_size + metadata_words)]
        /\ op' = [op EXCEPT !.chunk_new_sp = chunk_new_sp]
  /\ trace' = Append(trace, "copy")
  /\ pc' = "ff_patch"
  /\ UNCHANGED <<thawWalk, pinWalk, nfreeze, last, stk, curPc, tail, entry, thr, locks, pre>>

\* a faulty variant of FastBottomPc that writes no return address
FastBottomPcNull(ch) == NullPc

\* a faulty variant of FastBottomPc that keeps the return address copied
\* from the stack when the frame was thawed from a chunk before
FastBottomPcFromStack(ch) == IF ch.pc = NullPc THEN NullPc ELSE ReturnBarrierPc

\* the value written into the return-pc slot of the bottom-most frozen frame
FastBottomPc(ch) == ch.pc

FastPatch ==
  /\ pc = "ff_patch"
  /\ LET c == op.wtail
         chunk_bottom_sp == op.chunk_new_sp + op.cont_size - entry.argsize
     IN chunks' = [chunks EXCEPT
          ![c].words[chunk_bottom_sp - sender_sp_ret_address_offset + 1] = FastBottomPc(chunks[c])]
  /\ trace' = Append(trace, "chunk_write")
  /\ pc' = "ff_set_sp"
  /\ UNCHANGED <<thawWalk, pinWalk, nfreeze, last, stk, curPc, tail, entry, thr, locks, op, pre>>

FastSetSp ==
  /\ pc = "ff_set_sp"
  /\ chunks' = [chunks EXCEPT ![op.wtail].sp = op.chunk_new_sp]
  /\ trace' = Append(trace, "chunk_write")
  /\ pc' = "ff_set_pc"
  /\ UNCHANGED <<thawWalk, pinWalk, nfreeze, last, stk, curPc, tail, entry, thr, locks, op, pre>>

\* a faulty variant of FastTopPc that reads the saved rbp instead
FastTopPcWrongSlot(s, frame_sp) == WordAt(s, ContStackTop(frame_sp) - metadata_words)

\* the return address of the topmost frame, saved by the yield stub
FastTopPc(s, frame_sp) == WordAt(s, ContStackTop(frame_sp) - sender_sp_ret_address_offset)

FastSetPc ==
  /\ pc = "ff_set_pc"
  /\ chunks' = [chunks EXCEPT ![op.wtail].pc = FastTopPc(stk, op.frame_sp)]
  /\ trace' = Append(trace, "chunk_write")
  /\ pc' = "ff_write"
  /\ UNCHANGED <<thawWalk, pinWalk, nfreeze, last, stk, curPc, tail, entry, thr, locks, op, pre>>

\* ContinuationWrapper::write: the wrapper's tail is published
FastWrite ==
  /\ pc = "ff_write"
  /\ tail' = op.wtail
  /\ op' = [op EXCEPT !.res = freeze_ok]
  /\ trace' = Append(trace, "write")
  /\ pc' = "freeze_ret"
  /\ UNCHANGED <<thawWalk, pinWalk, nfreeze, last, stk, curPc, chunks, entry, thr, locks, pre>>

----------------------------------------------------------------------------
(* Freeze: slow path (FreezeBase::freeze_slow) *)

\* FreezeBase::_bottom_address
BottomAddress(argsize) == frame_align_pointer(entrySP - argsize)

FreezeFail(res) == [res |-> res, size |-> 0, argsize |-> 0, frames |-> <<>>]

\* a faulty variant of recurse_freeze that examines the callers of a frame
\* before the frame
RECURSIVE recurse_freeze_callers_first(_, _, _, _, _, _, _)
recurse_freeze_callers_first(s, lk, bottom_address, room, sp, m, callee_argsize) ==
  IF room = 0 THEN FreezeFail(freeze_exception)
  ELSE LET argsize == StackArgsize(m)
           fsize   == FrameSize(m) + argsize - callee_argsize
           f       == [sp |-> sp, m |-> m, callee_argsize |-> callee_argsize]
           bottom  == sp + FrameSize(m) >= bottom_address - 1
           r       == IF bottom
                      THEN [res |-> freeze_ok_bottom, size |-> 0, argsize |-> argsize, frames |-> <<>>]
                      ELSE recurse_freeze_callers_first(s, lk, bottom_address, room - 1,
                             sp + FrameSize(m),
                             WordAt(s, sp + FrameSize(m) - sender_sp_ret_address_offset), argsize)
       IN IF r.res > freeze_ok_bottom THEN r
          ELSE IF ~IsCompiled(m) THEN FreezeFail(freeze_pinned_native)
          ELSE IF sp \in lk THEN FreezeFail(freeze_pinned_monitor)
          ELSE [r EXCEPT !.size = @ + fsize, !.frames = Append(@, f)]

\* FreezeBase::freeze and recurse_freeze_java_frame, down the stack from the
\* frame of m at sp: the result, _size, the bottom frame's argsize and the
\* frames visited, bottom-most first.  room is the number of recursive calls
\* the native stack has room for; lk the frames that own a monitor.
RECURSIVE recurse_freeze(_, _, _, _, _, _, _)
recurse_freeze(s, lk, bottom_address, room, sp, m, callee_argsize) ==
  IF room = 0 THEN FreezeFail(freeze_exception)
  ELSE IF ~IsCompiled(m) THEN FreezeFail(freeze_pinned_native)
  ELSE IF sp \in lk THEN FreezeFail(freeze_pinned_monitor)
  ELSE LET argsize == StackArgsize(m)
           fsize   == FrameSize(m) + argsize - callee_argsize
           f       == [sp |-> sp, m |-> m, callee_argsize |-> callee_argsize]
       IN IF sp + FrameSize(m) >= bottom_address - 1
          THEN [res |-> freeze_ok_bottom, size |-> fsize, argsize |-> argsize, frames |-> <<f>>]
          ELSE LET r == recurse_freeze(s, lk, bottom_address, room - 1, sp + FrameSize(m),
                                       WordAt(s, sp + FrameSize(m) - sender_sp_ret_address_offset),
                                       argsize)
               IN IF r.res > freeze_ok_bottom THEN r
                  ELSE [r EXCEPT !.size = @ + fsize, !.frames = Append(@, f)]

\* the walk down the stack, up to finalize_freeze
SlowWalk ==
  /\ pc = "fs_walk"
  /\ \E room \in 0..MaxFrames :
       LET r == recurse_freeze(stk, locks, BottomAddress(entry.argsize), room,
                               ContStackTop(op.frame_sp), curPc, 0)
       IN IF r.res > freeze_ok_bottom
          THEN /\ op' = IF r.res = freeze_exception
                         THEN [op EXCEPT !.res = r.res, !.cause = "overflow",
                                         !.error = FreezeError("overflow", op.preempt)]
                         ELSE [op EXCEPT !.res = r.res]
               /\ thr' = IF r.res = freeze_exception
                         THEN ThreadAfterError(thr, "overflow", op.preempt) ELSE thr
               /\ trace' = IF r.res = freeze_exception
                           THEN trace \o <<"safepoint", "exception">> ELSE trace
               /\ pc' = "freeze_ret"
          ELSE /\ room = MaxFrames
               /\ op' = [op EXCEPT !.size = r.size, !.argsize = r.argsize, !.frames = r.frames]
               /\ pc' = "fs_finalize"
               /\ UNCHANGED <<thr, trace>>
  /\ UNCHANGED <<thawWalk, pinWalk, nfreeze, last, stk, curPc, chunks, tail, entry, locks, pre>>

\* finalize_freeze: the words the frames need in the chunk, given the tail
\* Interpreter::contains(pc): no method of the code table runs interpreted
InterpreterContains(p) == FALSE

\* a faulty variant of finalize_overlap that never overlaps
finalize_overlap_none(empty, top_interpreted, callee_interpreted, argsize) == 0

\* the stack arguments of the bottom frame overlap the chunk's top frame when
\* the chunk has one and it is of the bottom frame's kind
finalize_overlap(empty, top_interpreted, callee_interpreted, argsize) ==
  IF ~empty /\ callee_interpreted = top_interpreted THEN argsize ELSE 0

FinalizeOverlap(hp, c, argsize) ==
  IF c = NullChunk THEN 0
  ELSE finalize_overlap(is_empty(hp[c]), InterpreterContains(hp[c].pc), FALSE, argsize)

FinalizeNeedsAlloc(hp, c, size, barriers) ==
  \/ c = NullChunk
  \/ hp[c].sp < size
  \/ is_gc_mode(hp[c])
  \/ (~barriers /\ requires_barriers(hp[c]))

\* a faulty variant of FinalizeChunk that resets sp in a non-empty chunk too
FinalizeChunkReset(ch, argsize) ==
  [ch EXCEPT !.sp = ch.stack_size - argsize, !.argsize = argsize, !.mixed = TRUE]

\* the chunk made ready to receive frames whose bottom one has argsize
\* stack arguments
FinalizeChunk(ch, argsize) ==
  [(IF is_empty(ch) THEN [ch EXCEPT !.sp = ch.stack_size - argsize, !.argsize = argsize]
    ELSE ch) EXCEPT !.mixed = TRUE]

\* finalize_freeze up to unwind_frames
SlowFinalize ==
  /\ pc = "fs_finalize"
  /\ LET c       == op.wtail
         overlap == FinalizeOverlap(chunks, c, op.argsize)
         size    == op.size + metadata_words - overlap
     IN IF FinalizeNeedsAlloc(chunks, c, size, op.barriers)
        THEN \E out \in AllocOutcomes \ {"slow_deopt"} :
               /\ trace' = trace \o AllocEvents(out)
                             \o (IF AllocFails(out) THEN <<>> ELSE <<"header_write">>)
               /\ IF AllocFails(out)
                  THEN /\ thr' = ThreadAfterError(thr, out, op.preempt)
                       /\ op' = [op EXCEPT !.res = freeze_exception, !.cause = out,
                                           !.error = FreezeError(out, op.preempt)]
                       /\ pc' = "freeze_ret"
                       /\ UNCHANGED chunks
                  ELSE LET hp == allocate_chunk(chunks, c, size + overlap, out = "slow_barriers")
                           n  == Len(hp)
                       IN /\ chunks' = [hp EXCEPT ![n] = [FinalizeChunk(@, op.argsize)
                                                           EXCEPT !.fast_only = FALSE]]
                          /\ op' = [op EXCEPT !.wtail = n, !.allocated = TRUE,
                                              !.size = size + overlap,
                                              !.barriers = (out = "slow_barriers")]
                          /\ pc' = "fs_unwind"
                          /\ UNCHANGED thr
        ELSE /\ chunks' = [chunks EXCEPT ![c] = [FinalizeChunk(@, op.argsize)
                                                  EXCEPT !.fast_only = FALSE]]
             /\ op' = [op EXCEPT !.size = size]
             /\ pc' = "fs_unwind"
             /\ trace' = Append(trace, "header_write")
             /\ UNCHANGED thr
  /\ UNCHANGED <<thawWalk, pinWalk, nfreeze, last, stk, curPc, tail, entry, locks, pre>>

\* StackChunkFrameStream(chunk).to_frame(): the chunk's topmost frame, the
\* empty frame at sp when the chunk is empty
ChunkTopFrame(ch) ==
  IF is_empty(ch) THEN [sp |-> ch.sp, pc |-> NullPc, fp |-> 0]
  ELSE [sp |-> ch.sp, pc |-> ch.pc, fp |-> ChunkWord(ch, ch.sp - metadata_words)]

\* finalize_freeze from unwind_frames on
SlowUnwind ==
  /\ pc = "fs_unwind"
  /\ thr' = [thr EXCEPT !.anchor = "entry"]
  /\ chunks' = [chunks EXCEPT ![op.wtail].max_size = @ + op.size - metadata_words]
  /\ op' = [op EXCEPT !.caller = ChunkTopFrame(chunks[op.wtail]), !.res = freeze_ok_bottom]
  /\ trace' = trace \o <<"unwind", "chunk_write">>
  /\ pc' = "fs_copy"
  /\ UNCHANGED <<thawWalk, pinWalk, nfreeze, last, stk, curPc, tail, entry, locks, pre>>

\* FreezeBase::new_heap_frame (compiled): the frame of f in the chunk, below caller
new_heap_frame(s, f, caller) ==
  [sp |-> caller.sp - FrameSize(f.m), pc |-> f.m,
   fp |-> WordAt(s, f.sp - metadata_words)]

\* FreezeBase::patch: the return pc (bottom frame only) and the saved rbp of
\* the frame just copied, which sit right below the caller's sp
SlowPatch(ch, caller_sp, caller, bottom) ==
  [ch EXCEPT !.words =
     [o \in 1..ch.stack_size |->
        IF bottom /\ o - 1 = caller_sp - sender_sp_ret_address_offset THEN caller.pc
        ELSE IF o - 1 = caller_sp - metadata_words THEN caller.fp
        ELSE ch.words[o]]]

\* a faulty variant of recurse_freeze_result that hands the sentinel on
recurse_freeze_result_sentinel(bottom) == IF bottom THEN freeze_ok_bottom ELSE freeze_ok

\* what recurse_freeze_compiled_frame returns once its frame is copied
recurse_freeze_result(bottom) == freeze_ok

\* recurse_freeze_compiled_frame after the recursion returned: one frame is
\* copied and patched, bottom-most first
SlowCopy ==
  /\ pc = "fs_copy"
  /\ op.frames # <<>>
  /\ LET f        == Head(op.frames)
         bottom   == op.res = freeze_ok_bottom
         argsize  == StackArgsize(f.m)
         fsize    == FrameSize(f.m) + argsize - f.callee_argsize
         hf       == new_heap_frame(stk, f, op.caller)
         frame_sp == f.sp + f.callee_argsize
         heap_sp  == hf.sp + f.callee_argsize
         copied   == copy_from_stack_to_chunk(chunks[op.wtail], stk, frame_sp, heap_sp, fsize)
     IN /\ chunks' = [chunks EXCEPT ![op.wtail] =
                        SlowPatch(copied, hf.sp + FrameSize(f.m), op.caller, bottom)]
        /\ op' = [op EXCEPT !.frames = Tail(@), !.caller = hf,
                            !.res = recurse_freeze_result(bottom)]
  /\ trace' = trace \o <<"copy", "chunk_write">>
  /\ UNCHANGED <<thawWalk, pinWalk, nfreeze, last, stk, curPc, tail, entry, thr, locks, pc, pre>>

\* a faulty variant of FinishFreezeEvents that applies the barriers before the
\* top frame's metadata is written
FinishFreezeEventsBarriersFirst(barriers) ==
  (IF barriers THEN <<"barriers">> ELSE <<>>) \o <<"chunk_write">>

\* finish_freeze writes the top frame's metadata and the chunk's header, then
\* applies the store barriers over the chunk when _barriers is set
FinishFreezeEvents(barriers) ==
  <<"chunk_write">> \o (IF barriers THEN <<"barriers">> ELSE <<>>)

\* FreezeBase::finish_freeze with set_top_frame_metadata_pd
SlowFinish ==
  /\ pc = "fs_copy"
  /\ op.frames = <<>>
  /\ IF op.res = freeze_ok
     THEN LET top == op.caller IN
          /\ chunks' = [chunks EXCEPT ![op.wtail] =
               [@ EXCEPT !.words[top.sp - sender_sp_ret_address_offset + 1] = top.pc,
                         !.words[top.sp - metadata_words + 1] = top.fp,
                         !.sp = top.sp,
                         !.pc = top.pc,
                         !.max_size = @ + op.align_size]]
          /\ trace' = trace \o FinishFreezeEvents(op.barriers)
          /\ pc' = "fs_write"
     ELSE \* freeze_slow returns what freeze returned
          /\ pc' = "freeze_ret"
          /\ UNCHANGED <<chunks, trace>>
  /\ UNCHANGED <<thawWalk, pinWalk, nfreeze, last, stk, curPc, tail, entry, thr, locks, op, pre>>

\* freeze_slow: _cont.write()
SlowWrite ==
  /\ pc = "fs_write"
  /\ tail' = op.wtail
  /\ trace' = Append(trace, "write")
  /\ pc' = "freeze_ret"
  /\ UNCHANGED <<thawWalk, pinWalk, nfreeze, last, stk, curPc, chunks, entry, thr, locks, op, pre>>

\* freeze returns to the yield stub: on 0 the stub unwinds to enterSpecial
\* and the continuation is unmounted, otherwise Java resumes
FreezeReturn ==
  /\ pc = "freeze_ret"
  /\ IF op.res = freeze_ok
     THEN /\ stk' = <<>>
          /\ curPc' = NullPc
          /\ pc' = "frozen"
     ELSE /\ stk' = SubSeq(stk, 1, Len(stk) - metadata_words)
          /\ curPc' = curPc
          /\ pc' = "java"
  /\ thr' = [thr EXCEPT !.anchor = "none", !.pending_exception = FALSE]
     \* the chunks the call left unreachable are garbage
  /\ chunks' = Collect(chunks, tail)
  /\ tail' = NewId(chunks, tail, tail)
  /\ op' = OpNone
  /\ pre' = PreNone
  /\ trace' = <<>>
  /\ last' = IF op.res = freeze_ok
             THEN [valid |-> TRUE, complete |-> FALSE, stk |-> pre.stk,
                   top |-> ContStackTop(op.frame_sp), size |-> op.cont_size,
                   path |-> op.path, shape |-> Shape(chunks, tail),
                   overlap |-> pre.tail # NullChunk /\ op.wtail = pre.tail
                                 /\ ~is_empty(pre.chunks[pre.tail])]
             ELSE LastNone
  /\ UNCHANGED <<thawWalk, pinWalk, nfreeze, entry, locks>>

----------------------------------------------------------------------------
(* Thaw: sizing (prepare_thaw_internal) *)

LogBytesPerWord == 3
page_size == 4096          \* os::vm_page_size(), bytes
ThawSlack == 200           \* thaw_size: the slack added to the estimate
PrepareThawExtra == 300    \* prepare_thaw_internal: the native code's own need, bytes

\* 2^n
RECURSIVE Pow2(_)
Pow2(n) == IF n = 0 THEN 1 ELSE 2 * Pow2(n - 1)

\* the thread's stack_overflow_limit, a byte address, when room words are
\* left below the entry
stack_overflow_limit(room) == (entrySP - room) * Pow2(LogBytesPerWord)

\* a faulty variant of thaw_size that counts the frames' words only
thaw_size_of_frames(ch) == ch.max_size

\* thaw_size: a bound on the stack words a thaw of ch writes
thaw_size(ch) ==
  ch.max_size + metadata_words + 2 * align_wiggle + ThawSlack

\* a faulty variant of stack_overflow_check that checks every size
stack_overflow_check_every_size(room, size, sp) ==
  ~(sp - size < stack_overflow_limit(room))

\* sizes and addresses in bytes
stack_overflow_check(room, size, sp) ==
  IF size > page_size
  THEN ~(sp - size < stack_overflow_limit(room))
  ELSE TRUE

\* the carrier mounts the frozen continuation again: enterSpecial calls the
\* thaw stub
Run ==
  /\ pc = "frozen"
  /\ pc' = "prepare_thaw"
  /\ op' = [OpNone EXCEPT !.kind = thaw_top]
  /\ pre' = Snapshot(stk, thr)
  /\ UNCHANGED <<thawWalk, pinWalk, nfreeze, last, stk, curPc, chunks, tail, entry, thr, locks, trace>>

\* a faulty variant of PrepareThawChunk that keeps an empty tail
PrepareThawChunkKeepsTail(hp, t) == t

\* the chunk prepare_thaw sizes for: an empty tail is dropped
PrepareThawChunk(hp, t) == IF is_empty(hp[t]) THEN hp[t].parent ELSE t

PrepareThawResult(ch, room) ==
  LET size == thaw_size(ch) * Pow2(LogBytesPerWord) IN
    IF ~stack_overflow_check(room, size + PrepareThawExtra, entrySP * Pow2(LogBytesPerWord))
    THEN 0 ELSE size

PrepareThaw ==
  /\ pc = "prepare_thaw"
  /\ tail # NullChunk
  /\ \E room \in {StackRoom, StackRoomLow} :
       LET c == PrepareThawChunk(chunks, tail) IN
         /\ tail' = c
         /\ op' = [op EXCEPT !.ret = PrepareThawResult(chunks[c], room), !.wtail = c,
                             !.room = room]
         /\ pc' = IF PrepareThawResult(chunks[c], room) = 0 THEN "overflow" ELSE "thaw"
  /\ UNCHANGED <<thawWalk, pinWalk, nfreeze, last, stk, curPc, chunks, entry, thr, locks, pre, trace>>

----------------------------------------------------------------------------
(* Thaw: fast path (Thaw::thaw_fast) *)

\* a faulty variant of can_thaw_fast that ignores interpreter-only mode
can_thaw_fast_any_mode(t, ch) ==
  /\ ~requires_barriers(ch)
  /\ ~has_thaw_slowpath_condition(ch)
  /\ ~PreserveFramePointer

can_thaw_fast(t, ch) ==
  /\ ~requires_barriers(ch)
  /\ ~t.interp_only
  /\ ~has_thaw_slowpath_condition(ch)
  /\ ~PreserveFramePointer

\* a faulty variant of ClearChunk that forgets max_size
ClearChunkKeepMaxSize(ch) == [ch EXCEPT !.sp = ch.stack_size, !.argsize = 0]

\* the chunk emptied
ClearChunk(ch) == [ch EXCEPT !.sp = ch.stack_size, !.argsize = 0, !.max_size = 0]

\* a faulty variant of ThawOneChunk that leaves the frame in the chunk
ThawOneChunkKeepsFrame(ch, frame_size) ==
  [ch EXCEPT !.max_size = ch.max_size - frame_size]

\* a faulty variant of ThawOneChunk that leaves max_size as it was
ThawOneChunkKeepMaxSize(ch, frame_size) ==
  [ch EXCEPT !.sp = ch.sp + frame_size,
             !.pc = ChunkWord(ch, ch.sp + frame_size - sender_sp_ret_address_offset)]

\* the chunk after its topmost frame has been thawed and frames remain
ThawOneChunk(ch, frame_size) ==
  [ch EXCEPT !.sp = ch.sp + frame_size,
             !.max_size = ch.max_size - frame_size,
             !.pc = ChunkWord(ch, ch.sp + frame_size - sender_sp_ret_address_offset)]

\* a faulty variant of ThawFastPlan whose bulk thaw only moves the sp
ThawFastPlanBulkMovesSp(ch) ==
  LET full_chunk_size == ch.stack_size - ch.sp IN
  IF full_chunk_size < threshold
  THEN [partial |-> FALSE, empty |-> TRUE, argsize |-> ch.argsize,
        thaw_size |-> full_chunk_size, chunk |-> [ch EXCEPT !.sp = ch.stack_size]]
  ELSE LET frame_size == FrameSize(ch.pc)
           argsize    == StackArgsize(ch.pc)
           empty      == ch.sp + frame_size >= ch.stack_size - ch.argsize
       IN [partial |-> TRUE, empty |-> empty, argsize |-> argsize,
           thaw_size |-> frame_size + argsize,
           chunk |-> IF empty THEN ClearChunk(ch) ELSE ThawOneChunk(ch, frame_size)]

\* the decisions of thaw_fast for chunk ch
ThawFastPlan(ch) ==
  LET full_chunk_size == ch.stack_size - ch.sp IN
  IF full_chunk_size < threshold
  THEN [partial |-> FALSE, empty |-> TRUE, argsize |-> ch.argsize,
        thaw_size |-> full_chunk_size, chunk |-> ClearChunk(ch)]
  ELSE LET frame_size == FrameSize(ch.pc)
           argsize    == StackArgsize(ch.pc)
           empty      == ch.sp + frame_size >= ch.stack_size - ch.argsize
       IN [partial |-> TRUE, empty |-> empty, argsize |-> argsize,
           thaw_size |-> frame_size + argsize,
           chunk |-> IF empty THEN ClearChunk(ch) ELSE ThawOneChunk(ch, frame_size)]

\* a faulty variant of ReturnPc that installs the return barrier always
ReturnPcAlwaysBarrier(is_last) == ReturnBarrierPc

\* ThawBase::patch_return
ReturnPc(is_last) == IF is_last THEN EntryPc ELSE ReturnBarrierPc

\* a faulty variant of patch_return that leaves the slot as copied
patch_return_skipped(s, sp, is_last) == s

patch_return(s, sp, is_last) ==
  [s EXCEPT ![entrySP - (sp - sender_sp_ret_address_offset)] = ReturnPc(is_last)]

ThawFast ==
  /\ pc = "thaw"
  /\ can_thaw_fast(thr, chunks[tail])
  /\ LET ch   == chunks[tail]
         plan == ThawFastPlan(ch)
         is_last   == plan.empty /\ ch.parent = NullChunk
         bottom_sp == frame_align_pointer(entrySP - plan.argsize)
         stack_sp  == frame_align_pointer(entrySP - plan.thaw_size)
         from == ch.sp - metadata_words
         to   == stack_sp - metadata_words
         copied == copy_from_chunk_to_stack(ch, stk, from, to, plan.thaw_size + metadata_words)
     IN /\ chunks' = [chunks EXCEPT ![tail] = plan.chunk]
        /\ stk' = patch_return(copied, bottom_sp, is_last)
        /\ entry' = [entry EXCEPT !.argsize = plan.argsize]
        /\ op' = [op EXCEPT !.ret = stack_sp, !.path = IF plan.partial THEN "fast_partial" ELSE "fast_bulk",
                            !.thawed = Len(ChunkFrames(ch)) - Len(ChunkFrames(plan.chunk)),
                            !.wlo = to, !.whi = to + plan.thaw_size + metadata_words]
  /\ pc' = "thawed"
  /\ UNCHANGED <<thawWalk, pinWalk, nfreeze, last, curPc, tail, thr, locks, pre, trace>>

----------------------------------------------------------------------------
(* Thaw: slow path (ThawBase::thaw_slow), compiled frames *)

EntryFp == 50   \* ContinuationEntry::entry_fp(): the rbp of enterSpecial

\* ThawBase::seen_by_gc
seen_by_gc(ch) == requires_barriers(ch) \/ is_gc_mode(ch)

\* a faulty variant of FinalizeThawChunk that leaves max_size as it was
\* when frames remain
FinalizeThawChunkKeepsMaxSize(ch, fs, k) ==
  IF k = Len(fs)
  THEN [ch EXCEPT !.argsize = 0, !.sp = ch.stack_size, !.pc = NullPc,
                  !.max_size = @ - ((ch.stack_size - ch.argsize) - ch.sp)]
  ELSE [ch EXCEPT !.sp = fs[k + 1].sp,
                  !.pc = ChunkWord(ch, fs[k + 1].sp - sender_sp_ret_address_offset)]

\* ThawBase::finalize_thaw: the chunk after its k topmost frames left it
FinalizeThawChunk(ch, fs, k) ==
  IF k = Len(fs)
  THEN [ch EXCEPT !.argsize = 0, !.sp = ch.stack_size, !.pc = NullPc,
                  !.max_size = @ - ((ch.stack_size - ch.argsize) - ch.sp)]
  ELSE [ch EXCEPT !.sp = fs[k + 1].sp,
                  !.pc = ChunkWord(ch, fs[k + 1].sp - sender_sp_ret_address_offset),
                  !.max_size = @ - (fs[k + 1].sp - ch.sp)]

\* a faulty variant of FinishThawChunk that clears the mixed-frames flag
\* of a chunk that still holds frames
FinishThawChunkClearsMixed(ch, gc, align_size) ==
  IF is_empty(ch)
  THEN [ch EXCEPT !.mixed = IF gc THEN @ ELSE FALSE, !.max_size = 0]
  ELSE [ch EXCEPT !.mixed = FALSE, !.max_size = @ - align_size]

\* ThawBase::finish_thaw, the chunk's part
FinishThawChunk(ch, gc, align_size) ==
  IF is_empty(ch)
  THEN [ch EXCEPT !.mixed = IF gc THEN @ ELSE FALSE, !.max_size = 0]
  ELSE [ch EXCEPT !.max_size = @ - align_size]

\* ThawBase::new_stack_frame and align for the bottom-most thawed frame:
\* room for its stack arguments, the sp 16-byte aligned
BottomThawSp(m) == frame_align_pointer(entrySP - FrameSize(m) - StackArgsize(m))

\* recurse_thaw_compiled_frame for the frames fs[i..k] of the chunk as it
\* was, bottom-most first: the stack and the sp of frame i
RECURSIVE recurse_thaw(_, _, _, _, _, _)
recurse_thaw(ch, s, fs, i, k, is_last) ==
  LET hf    == fs[i]
      fsize == FrameSize(hf.m)
  IN IF i = k
     THEN LET argsize  == StackArgsize(hf.m)
              frame_sp == BottomThawSp(hf.m)
              copied   == copy_from_chunk_to_stack(ch, s, hf.sp - metadata_words,
                            frame_sp - metadata_words, fsize + argsize + metadata_words)
              patched  == patch_return(copied, frame_sp + fsize, is_last)
          IN [stk |-> [patched EXCEPT ![entrySP - (frame_sp + fsize - metadata_words)] = EntryFp],
              sp  |-> frame_sp,
              hi  |-> frame_sp - metadata_words + fsize + argsize + metadata_words]
     ELSE LET r        == recurse_thaw(ch, s, fs, i + 1, k, is_last)
              frame_sp == r.sp - fsize
              copied   == copy_from_chunk_to_stack(ch, r.stk, hf.sp - metadata_words,
                            frame_sp - metadata_words, fsize + metadata_words)
          IN [stk |-> [copied EXCEPT ![entrySP - (frame_sp + fsize - metadata_words)] =
                                       ChunkWord(ch, fs[i + 1].sp - metadata_words)],
              sp  |-> frame_sp,
              hi  |-> r.hi]

\* ThawBase::push_return_frame: the pc and rbp of the topmost thawed frame
push_return_frame(s, sp, fpc, ffp) ==
  [s EXCEPT ![entrySP - (sp - sender_sp_ret_address_offset)] = fpc,
            ![entrySP - (sp - metadata_words)] = ffp]

\* a faulty variant of thaw_slow_num_frames that thaws two frames always
thaw_slow_num_frames_two(return_barrier) == 2

\* ThawBase::thaw_slow: the number of frames to thaw
thaw_slow_num_frames(return_barrier) == IF return_barrier THEN 1 ELSE 2

\* a faulty variant of FinishThawTail that unlinks every emptied chunk
FinishThawTailUnlinksAll(ch, gc, t) == IF is_empty(ch) THEN ch.parent ELSE t

\* ThawBase::finish_thaw, the continuation's part: an emptied chunk the
\* collector has seen is removed from the list
FinishThawTail(ch, gc, t) == IF is_empty(ch) /\ gc THEN ch.parent ELSE t

\* a faulty variant of ThawSlowCount that ends the recursion at the first frame
ThawSlowCountOne(num_frames, fs) == 1

\* recurse_thaw_java_frame ends the recursion when num_frames frames are
\* thawed or the stream of the chunk's frames fs is done
ThawSlowCount(num_frames, fs) == Min(num_frames, Len(fs))

\* a faulty variant of finalize_thaw_argsize that records no arguments
finalize_thaw_argsize_none(interpreted, argsize) == 0

\* recurse_thaw_java_frame: the argsize finalize_thaw stores in the entry
finalize_thaw_argsize(interpreted, argsize) == IF interpreted THEN 0 ELSE argsize

ThawSlow ==
  /\ pc = "thaw"
  /\ ~can_thaw_fast(thr, chunks[tail])
  /\ LET ch  == chunks[tail]
         gc  == seen_by_gc(ch)
         fs  == ChunkFrames(ch)
         num_frames == thaw_slow_num_frames(op.kind # thaw_top)
         k   == ThawSlowCount(num_frames, fs)
         ch1 == FinalizeThawChunk(ch, fs, k)
         is_last == cont_is_empty([chunks EXCEPT ![tail] = ch1], tail)
         r   == recurse_thaw(ch, stk, fs, 1, k, is_last)
         ch2 == FinishThawChunk(ch1, gc, op.align_size)
     IN /\ k > 0
        /\ chunks' = [chunks EXCEPT ![tail] = [ch2 EXCEPT !.fast_only = FALSE]]
        /\ tail' = FinishThawTail(ch1, gc, tail)
        /\ stk' = push_return_frame(r.stk, r.sp, ch.pc, ChunkWord(ch, ch.sp - metadata_words))
        /\ entry' = [entry EXCEPT !.argsize =
                        finalize_thaw_argsize(InterpreterContains(fs[k].m),
                                              StackArgsize(fs[k].m))]
        /\ thr' = [thr EXCEPT !.cont_fastpath =
                     IF thr.interp_only THEN BottomThawSp(fs[k].m) ELSE 0]
        /\ op' = [op EXCEPT !.ret = r.sp, !.path = "slow", !.thawed = k,
                            !.wlo = r.sp - metadata_words, !.whi = r.hi]
  /\ pc' = "thawed"
  /\ UNCHANGED <<thawWalk, pinWalk, nfreeze, last, curPc, locks, pre, trace>>

\* thaw returns the new sp to the stub, which pops the metadata words and
\* jumps to the topmost thawed frame
ThawReturn ==
  /\ pc = "thawed"
  /\ curPc' = WordAt(stk, op.ret - sender_sp_ret_address_offset)
  /\ stk' = SubSeq(stk, 1, entrySP - op.ret)
  /\ thr' = [thr EXCEPT !.held_monitor_count = 0]
  /\ pc' = "java"
     \* the chunks the call left unreachable are garbage
  /\ chunks' = Collect(chunks, tail)
  /\ tail' = NewId(chunks, tail, tail)
  /\ op' = OpNone
  /\ pre' = PreNone
  /\ last' = IF last.valid /\ cont_is_empty(chunks, tail)
             THEN [last EXCEPT !.complete = TRUE] ELSE LastNone
  /\ UNCHANGED <<thawWalk, pinWalk, nfreeze, entry, locks, trace>>

----------------------------------------------------------------------------
Next ==
  \/ \E m \in Methods : JavaCall(m)
  \/ \E i \in 0..1 : JavaStoreArg(i)
  \/ JavaReturn
  \/ GCSeesChunk
  \/ SetInterpOnly
  \/ Yield
  \/ FreezeInternal
  \/ FastReuse
  \/ FastAllocate
  \/ FastUnwind
  \/ FastCopy
  \/ FastPatch
  \/ FastSetSp
  \/ FastSetPc
  \/ FastWrite
  \/ SlowWalk
  \/ SlowFinalize
  \/ SlowUnwind
  \/ SlowCopy
  \/ SlowFinish
  \/ SlowWrite
  \/ FreezeReturn
  \/ Run
  \/ PrepareThaw
  \/ ThawFast
  \/ ThawSlow
  \/ ThawReturn

Spec == Init /\ [][Next]_vars

----------------------------------------------------------------------------
(* A slow thaw of a chunk that holds interpreted and compiled frames      *)
(* (ThawBase::thaw_slow, thaw_one_frame, recurse_thaw_java_frame,         *)
(* recurse_thaw_interpreted_frame, recurse_thaw_compiled_frame), one step *)
(* per call.  A frame is [kind, args, deopt, marked]: args are the stack  *)
(* arguments of a compiled frame or the locals of an interpreted one.     *)

WalkFrameTypes ==
  {[kind |-> "interpreted", args |-> 0, deopt |-> FALSE, marked |-> FALSE],
   [kind |-> "interpreted", args |-> 2, deopt |-> FALSE, marked |-> FALSE],
   [kind |-> "compiled", args |-> 0, deopt |-> FALSE, marked |-> FALSE],
   [kind |-> "compiled", args |-> 1, deopt |-> FALSE, marked |-> FALSE],
   [kind |-> "compiled", args |-> 0, deopt |-> TRUE, marked |-> FALSE],
   [kind |-> "compiled", args |-> 1, deopt |-> FALSE, marked |-> TRUE]}

WalkChunks == UNION {[1..n -> WalkFrameTypes] : n \in 1..MaxFrames}

is_interpreted_frame(f) == f.kind = "interpreted"

\* the words of a frame in the chunk: an interpreted frame holds its locals
WalkFrameSize(f) == IF is_interpreted_frame(f) THEN 6 + f.args ELSE 4

\* the chunk offset of frame i, the topmost frame being at metadata_words
RECURSIVE WalkHeapSp(_, _)
WalkHeapSp(fs, i) ==
  IF i = 1 THEN metadata_words ELSE WalkHeapSp(fs, i - 1) + WalkFrameSize(fs[i - 1])

\* the offsets of the chunk's words, the stack arguments of the bottom frame
\* included
WalkChunkWords(fs) ==
  metadata_words..(WalkHeapSp(fs, Len(fs)) + WalkFrameSize(fs[Len(fs)]) + fs[Len(fs)].args - 1)

\* a faulty variant of thaw_extra_frame that looks for a boundary of either
\* direction
thaw_extra_frame_either(num_frames, done, interpreted, caller_compiled) ==
  num_frames = 1 /\ ~done /\ (interpreted = caller_compiled)

\* recurse_thaw_java_frame: a compiled caller of an interpreted frame is not
\* left as the top frame of the chunk
thaw_extra_frame(num_frames, done, interpreted, caller_compiled) ==
  num_frames = 1 /\ ~done /\ interpreted /\ caller_compiled

\* a faulty variant of maybe_set_fastpath that keeps the lowest address
maybe_set_fastpath_lowest(fastpath, sp) ==
  IF fastpath = 0 \/ sp < fastpath THEN sp ELSE fastpath

\* ThawBase::maybe_set_fastpath
maybe_set_fastpath(fastpath, sp) == IF sp > fastpath THEN sp ELSE fastpath

\* a faulty variant of ClearedBits that clears the words of the frame too
ClearedBitsWithFrame(fs, i) ==
  LET heap_sp == WalkHeapSp(fs, i) IN
    IF fs[i].args = 0 THEN {}
    ELSE heap_sp..(heap_sp + WalkFrameSize(fs[i]) + fs[i].args - 1)

\* the bits clear_bitmap_bits clears for the bottom-most thawed frame i: the
\* locals of an interpreted frame, the stack arguments of a compiled one
ClearedBits(fs, i) ==
  LET heap_sp == WalkHeapSp(fs, i)
      fsize   == WalkFrameSize(fs[i])
  IN IF fs[i].args = 0 THEN {}
     ELSE IF is_interpreted_frame(fs[i])
          THEN (heap_sp + fsize - fs[i].args)..(heap_sp + fsize - 1)
          ELSE (heap_sp + fsize)..(heap_sp + fsize + fs[i].args - 1)

ThawWalkInit ==
  /\ MainInit
  /\ pinWalk = PinIdle
  /\ \E fs \in WalkChunks : \E rb, io, pe, bm \in BOOLEAN :
       thawWalk = [phase |-> "thaw_slow", frames |-> fs, return_barrier |-> rb,
                   interp_only |-> io, preempted |-> pe, has_bitmap |-> bm,
                   bitmap |-> IF bm THEN WalkChunkWords(fs) ELSE {},
                   num_frames |-> 0, pos |-> 0, k |-> 0, cur |-> 0,
                   sp |-> entrySP, sps |-> <<>>, fastpath |-> 0,
                   thread_fastpath |-> entrySP - 1, deoptimized |-> {},
                   returned |-> 0, fast |-> FALSE]

\* thaw_slow up to thaw_one_frame of the chunk's top frame
WalkThawSlow ==
  /\ thawWalk.phase = "thaw_slow"
  /\ thawWalk' = [thawWalk EXCEPT !.phase = "recurse",
                    !.num_frames = thaw_slow_num_frames(thawWalk.return_barrier),
                    !.pos = 1]
  /\ UNCHANGED <<stk, curPc, chunks, tail, entry, thr, locks, pc, op, pre, trace, nfreeze,
                 last, pinWalk>>

\* recurse_thaw_java_frame for the frame at pos: the stream moves to its
\* caller, and the recursion goes on or ends in finalize_thaw
WalkRecurse ==
  /\ thawWalk.phase = "recurse"
  /\ LET fs   == thawWalk.frames
         i    == thawWalk.pos
         done == i = Len(fs)
         n    == IF thaw_extra_frame(thawWalk.num_frames, done, is_interpreted_frame(fs[i]),
                                     ~done /\ ~is_interpreted_frame(fs[Min(i + 1, Len(fs))]))
                 THEN thawWalk.num_frames + 1 ELSE thawWalk.num_frames
     IN thawWalk' = IF n = 1 \/ done
                    THEN [thawWalk EXCEPT !.phase = "copy", !.k = i, !.cur = i, !.num_frames = n]
                    ELSE [thawWalk EXCEPT !.pos = i + 1, !.num_frames = n - 1]
  /\ UNCHANGED <<stk, curPc, chunks, tail, entry, thr, locks, pc, op, pre, trace, nfreeze,
                 last, pinWalk>>

\* the frame is deoptimized when it comes out of recurse_thaw_compiled_frame
WalkDeoptimizes(w, f) ==
  /\ ~is_interpreted_frame(f)
  /\ ~f.deopt
  /\ (w.interp_only \/ (w.preempted /\ f.marked))

\* recurse_thaw_interpreted_frame or recurse_thaw_compiled_frame after the
\* recursion has returned: frame cur is copied below its caller
WalkCopy ==
  /\ thawWalk.phase = "copy"
  /\ thawWalk.cur >= 1
  /\ LET fs     == thawWalk.frames
         i      == thawWalk.cur
         f      == fs[i]
         bottom == i = thawWalk.k
         added_argsize == IF is_interpreted_frame(f) THEN 0
                          ELSE IF bottom \/ is_interpreted_frame(fs[Min(i + 1, Len(fs))])
                               THEN f.args ELSE 0
         frame_sp == frame_align_pointer(thawWalk.sp - WalkFrameSize(f) - added_argsize)
         slow   == is_interpreted_frame(f) \/ f.deopt \/ WalkDeoptimizes(thawWalk, f)
     IN thawWalk' = [thawWalk EXCEPT
          !.cur = i - 1,
          !.sp = frame_sp,
          !.sps = <<frame_sp>> \o @,
          !.fastpath = IF slow THEN maybe_set_fastpath(@, frame_sp) ELSE @,
          !.deoptimized = IF WalkDeoptimizes(thawWalk, f) THEN @ \cup {i} ELSE @,
          !.bitmap = IF bottom /\ thawWalk.has_bitmap THEN @ \ ClearedBits(fs, i) ELSE @]
  /\ UNCHANGED <<stk, curPc, chunks, tail, entry, thr, locks, pc, op, pre, trace, nfreeze,
                 last, pinWalk>>

\* thaw_slow after thaw_one_frame: _thread->set_cont_fastpath(_fastpath)
WalkFinish ==
  /\ thawWalk.phase = "copy"
  /\ thawWalk.cur = 0
  /\ thawWalk' = [thawWalk EXCEPT !.phase = "done", !.thread_fastpath = thawWalk.fastpath]
  /\ UNCHANGED <<stk, curPc, chunks, tail, entry, thr, locks, pc, op, pre, trace, nfreeze,
                 last, pinWalk>>

\* the topmost thawed frame returns to its caller
WalkReturn ==
  /\ thawWalk.phase = "done"
  /\ thawWalk.returned < thawWalk.k - 1
  /\ thawWalk' = [thawWalk EXCEPT !.returned = @ + 1]
  /\ UNCHANGED <<stk, curPc, chunks, tail, entry, thr, locks, pc, op, pre, trace, nfreeze,
                 last, pinWalk>>

\* the topmost frame left yields: freeze clears a marker that is not within
\* the continuation's frames, and can_freeze_fast decides
WalkFreeze ==
  /\ thawWalk.phase = "done"
  /\ LET sp == thawWalk.sps[thawWalk.returned + 1] - metadata_words
         m  == thawWalk.thread_fastpath
         t  == [ThrNone EXCEPT !.cont_fastpath = IF m > entrySP \/ m < sp THEN 0 ELSE m,
                               !.interp_only = thawWalk.interp_only]
     IN thawWalk' = [thawWalk EXCEPT !.phase = "freeze", !.thread_fastpath = t.cont_fastpath,
                                     !.fast = can_freeze_fast(t)]
  /\ UNCHANGED <<stk, curPc, chunks, tail, entry, thr, locks, pc, op, pre, trace, nfreeze,
                 last, pinWalk>>

ThawWalkNext ==
  WalkThawSlow \/ WalkRecurse \/ WalkCopy \/ WalkFinish \/ WalkReturn \/ WalkFreeze

ThawWalkSpec == ThawWalkInit /\ [][ThawWalkNext]_vars

----------------------------------------------------------------------------
(* The pin query of a thread with nested mounted continuations            *)
(* (is_pinned0, is_pinned), one step per frame examined and per entry     *)
(* crossed.  The entries are listed innermost first; each has the frames  *)
(* of its continuation, the yield frame first, which its entry frame      *)
(* follows.                                                               *)

MaxEntries == 2     \* mounted continuations, nested
MaxPinFrames == 2   \* frames of one continuation

PinFrameTypes ==
  {[kind |-> "compiled", owning_locks |-> FALSE, native |-> FALSE],
   [kind |-> "compiled", owning_locks |-> TRUE, native |-> FALSE],
   [kind |-> "interpreted", owning_locks |-> FALSE, native |-> TRUE],
   [kind |-> "interpreted", owning_locks |-> TRUE, native |-> TRUE],
   [kind |-> "stub", owning_locks |-> FALSE, native |-> FALSE]}

PinScopes == {1, 2}

PinEntries ==
  [pinned : BOOLEAN, scope : PinScopes,
   frames : UNION {[1..n -> PinFrameTypes] : n \in 1..MaxPinFrames}]

\* a faulty variant of is_pinned that looks at the method before the locks
is_pinned_native_first(f) ==
  IF f.kind = "interpreted"
  THEN IF f.native THEN freeze_pinned_native
       ELSE IF f.owning_locks THEN freeze_pinned_monitor ELSE freeze_ok
  ELSE IF f.kind = "compiled"
       THEN IF f.owning_locks THEN freeze_pinned_monitor ELSE freeze_ok
       ELSE freeze_pinned_native

is_pinned(f) ==
  IF f.kind = "interpreted"
  THEN IF f.owning_locks THEN freeze_pinned_monitor
       ELSE IF f.native THEN freeze_pinned_native ELSE freeze_ok
  ELSE IF f.kind = "compiled"
       THEN IF f.owning_locks THEN freeze_pinned_monitor ELSE freeze_ok
       ELSE freeze_pinned_native

\* the frames of the thread from the yield frame outwards, each
\* continuation's frames followed by its entry frame
RECURSIVE PinFrames(_, _)
PinFrames(es, entry_frame) ==
  IF es = <<>> THEN <<>>
  ELSE es[1].frames \o <<entry_frame>> \o PinFrames(Tail(es), entry_frame)

\* the index in PinFrames of the entry frame of entry j
RECURSIVE PinEntryFrame(_, _)
PinEntryFrame(es, j) ==
  IF j = 0 THEN 0 ELSE PinEntryFrame(es, j - 1) + Len(es[j].frames) + 1

\* Continuation::is_frame_in_continuation(entry, f)
is_frame_in_continuation(es, j, i) == i < PinEntryFrame(es, j)

\* a faulty variant of is_pinned0_cross that looks at the enclosing entry
\* before it compares the scopes
is_pinned0_cross_parent_first(scope_matches, has_parent, parent_pinned) ==
  IF has_parent /\ parent_pinned THEN "pinned_cs"
  ELSE IF scope_matches \/ ~has_parent THEN "break"
  ELSE "continue"

\* is_pinned0, the sender is not a frame of the entry's continuation
is_pinned0_cross(scope_matches, has_parent, parent_pinned) ==
  IF scope_matches THEN "break"
  ELSE IF ~has_parent THEN "break"
  ELSE IF parent_pinned THEN "pinned_cs"
  ELSE "continue"

PinWalkInit ==
  /\ MainInit
  /\ thawWalk = WalkIdle
  /\ \E n \in 0..MaxEntries : \E es \in [1..n -> PinEntries] :
     \E ef \in {f \in PinFrameTypes : ~f.owning_locks /\ f.kind # "interpreted"} :
       pinWalk = [phase |-> "is_pinned0", entries |-> es, cont_scope |-> 1,
                  entry_frame |-> ef, entry |-> 0, f |-> 0, res |-> freeze_ok, steps |-> 0]

\* is_pinned0 up to the loop
PinStart ==
  /\ pinWalk.phase = "is_pinned0"
  /\ pinWalk' =
       IF pinWalk.entries = <<>>
       THEN [pinWalk EXCEPT !.phase = "done", !.res = freeze_ok]
       ELSE IF pinWalk.entries[1].pinned
            THEN [pinWalk EXCEPT !.phase = "done", !.res = freeze_pinned_cs, !.entry = 1]
            ELSE [pinWalk EXCEPT !.phase = "loop", !.entry = 1, !.f = 1]
  /\ UNCHANGED <<stk, curPc, chunks, tail, entry, thr, locks, pc, op, pre, trace, nfreeze,
                 last, thawWalk>>

\* one iteration of the loop: is_pinned(f), then f = f.sender()
PinFrame ==
  /\ pinWalk.phase = "loop"
  /\ LET fs  == PinFrames(pinWalk.entries, pinWalk.entry_frame)
         res == is_pinned(fs[pinWalk.f])
     IN pinWalk' =
          IF res # freeze_ok
          THEN [pinWalk EXCEPT !.phase = "done", !.res = res, !.steps = @ + 1]
          ELSE [pinWalk EXCEPT
                  !.f = @ + 1, !.steps = @ + 1,
                  !.phase = IF is_frame_in_continuation(pinWalk.entries, pinWalk.entry,
                                                        pinWalk.f + 1)
                            THEN "loop" ELSE "cross"]
  /\ UNCHANGED <<stk, curPc, chunks, tail, entry, thr, locks, pc, op, pre, trace, nfreeze,
                 last, thawWalk>>

\* the sender is not in the entry's continuation: stop at the scope asked
\* for, else go on with the enclosing entry
PinCross ==
  /\ pinWalk.phase = "cross"
  /\ LET es  == pinWalk.entries
         e   == pinWalk.entry
         has_parent == e < Len(es)
         out == is_pinned0_cross(es[e].scope = pinWalk.cont_scope, has_parent,
                                 has_parent /\ es[Min(e + 1, Len(es))].pinned)
     IN pinWalk' =
          IF out = "break" THEN [pinWalk EXCEPT !.phase = "done", !.res = freeze_ok]
          ELSE IF out = "pinned_cs"
               THEN [pinWalk EXCEPT !.phase = "done", !.res = freeze_pinned_cs,
                                    !.entry = e + 1]
               ELSE [pinWalk EXCEPT !.phase = "loop", !.entry = e + 1]
  /\ UNCHANGED <<stk, curPc, chunks, tail, entry, thr, locks, pc, op, pre, trace, nfreeze,
                 last, thawWalk>>

PinWalkNext == PinStart \/ PinFrame \/ PinCross

PinWalkSpec == PinWalkInit /\ [][PinWalkNext]_vars /\ WF_vars(PinWalkNext)

----------------------------------------------------------------------------
(* Properties *)

\* no freeze, prepare_thaw or thaw call is under way
OpCompleted == pc \in {"java", "frozen", "done", "overflow", "thaw", "thawed", "freeze_ret"}

\* C1: after any sequence of completed freeze, prepare_thaw and thaw calls,
\* every chunk reachable from the tail is empty iff its sp equals its
\* stack_size iff its max_size is 0.
EmptyIffSpIffMaxSize ==
  OpCompleted =>
    \A c \in Reachable(chunks, tail) :
      /\ is_empty(chunks[c]) <=> chunks[c].sp = chunks[c].stack_size
      /\ chunks[c].sp = chunks[c].stack_size <=> chunks[c].max_size = 0

\* a slow thaw has just emptied the tail chunk, which had stack arguments
\* at its bottom, and retained it
EmptyIffSpIffMaxSizeWitness ==
  /\ pc = "thawed"
  /\ op.path = "slow"
  /\ tail = op.wtail
  /\ is_empty(chunks[tail])
  /\ entry.argsize > 0

\* C5: after any sequence of completed freeze and thaw calls, every
\* non-empty reachable chunk has the word at offset sp - 1 equal to its pc.
TopReturnPcSlotIsPc ==
  OpCompleted =>
    \A c \in Reachable(chunks, tail) :
      ~is_empty(chunks[c]) =>
        ChunkWord(chunks[c], chunks[c].sp - sender_sp_ret_address_offset) = chunks[c].pc

\* a single-frame fast thaw has left frames in the chunk
TopReturnPcSlotIsPcWitness ==
  /\ pc = "thawed"
  /\ op.path = "fast_partial"
  /\ ~is_empty(chunks[tail])

\* C2: when freeze returns a result other than freeze_ok (a pinned code or
\* freeze_exception), on the fast path, the slow path or the slow retry
\* after an aborted fast path, the continuation's tail, every chunk that
\* existed before the call (header and words), the anchor (at the yield
\* stub: unwind_frames never ran) and the native stack are as before the call.
FailedFreezeChangesNothing ==
  (pc = "freeze_ret" /\ op.res # freeze_ok) =>
    /\ tail = pre.tail
    /\ Len(chunks) >= Len(pre.chunks)
    /\ \A c \in 1..Len(pre.chunks) : chunks[c] = pre.chunks[c]
    /\ thr.anchor = "yield"
    /\ \A i \in 1..Len(trace) : trace[i] # "unwind"
    /\ stk = pre.stk

\* the slow retry after an aborted fast path fails with an exception; a
\* chunk existed before the call and another was allocated during it
FailedFreezeChangesNothingWitness ==
  /\ pc = "freeze_ret"
  /\ op.res = freeze_exception
  /\ op.path = "slow_retry"
  /\ pre.tail # NullChunk
  /\ Len(chunks) > Len(pre.chunks)

\* the frames between the yield stub and the entry, topmost first
YieldingFrames == StackFrames(stk, ContStackTop(op.frame_sp), curPc)

\* the topmost frames of chunk ch are the frames fs of the stack s, with
\* the same words below their saved rbp
FramesAreIn(ch, s, fs) ==
  LET cf == ChunkFrames(ch) IN
    /\ Len(cf) >= Len(fs)
    /\ \A i \in 1..Len(fs) :
         /\ cf[i].m = fs[i].m
         /\ \A j \in 0..(FrameSize(fs[i].m) - metadata_words - 1) :
              ChunkWord(ch, cf[i].sp + j) = WordAt(s, fs[i].sp + j)

\* C8: the value freeze returns to the yield stub is one of 0, 2, 3, 4, 5,
\* never the sentinel freeze_ok_bottom (1), and it is 0 only when the
\* continuation is non-empty and all frames between the yield stub and the
\* entry are in the tail chunk.
FreezeReturnValue ==
  pc = "freeze_ret" =>
    /\ op.res \in {freeze_ok, freeze_pinned_cs, freeze_pinned_native,
                   freeze_pinned_monitor, freeze_exception}
    /\ op.res = freeze_ok =>
         /\ ~cont_is_empty(chunks, tail)
         /\ YieldingFrames # <<>>
         /\ FramesAreIn(chunks[tail], stk, YieldingFrames)

\* the slow path has frozen two frames or more and returns 0
FreezeReturnValueWitness ==
  /\ pc = "freeze_ret"
  /\ op.res = freeze_ok
  /\ op.path = "slow_retry"
  /\ Len(YieldingFrames) >= 2

\* C10: a fast freeze of cont_size words into a non-empty tail chunk, the
\* entry's argsize being k, keeps the chunk object, lowers its sp and
\* raises its max_size by cont_size - k, leaves its argsize alone, writes
\* the cont_size + metadata_words words from the new sp - metadata_words up
\* and so overwrites, of the old content, exactly the k words from the old
\* sp up.
FastFreezeIntoNonEmpty ==
  (/\ pc = "freeze_ret"
   /\ op.path = "fast_reuse"
   /\ ~is_empty(pre.chunks[pre.tail])) =>
    LET old == pre.chunks[pre.tail]
        new == chunks[tail]
        k   == pre.argsize
        n   == op.cont_size
    IN /\ op.res = freeze_ok
       /\ tail = pre.tail
       /\ Len(chunks) = Len(pre.chunks)
       /\ new.stack_size = old.stack_size
       /\ new.parent = old.parent
       /\ new.sp = old.sp - (n - k)
       /\ new.max_size = old.max_size + (n - k)
       /\ new.argsize = old.argsize
       /\ (old.sp + k) - (new.sp - metadata_words) = n + metadata_words
       /\ \A o \in 0..(old.stack_size - 1) :
            (o < new.sp - metadata_words \/ o >= old.sp + k) =>
               ChunkWord(new, o) = ChunkWord(old, o)
       /\ \A i \in 0..(k - 1) :
            ChunkWord(new, old.sp + i) = WordAt(stk, ContStackBottom(k) - k + i)

\* such a freeze with k > 0 where a word above the old sp changed
FastFreezeIntoNonEmptyWitness ==
  /\ pc = "freeze_ret"
  /\ op.path = "fast_reuse"
  /\ ~is_empty(pre.chunks[pre.tail])
  /\ pre.argsize > 0
  /\ ChunkWord(chunks[tail], pre.chunks[pre.tail].sp) # ChunkWord(pre.chunks[pre.tail], pre.chunks[pre.tail].sp)

\* the frames a thaw has put on the stack, topmost first
ThawedFrames == StackFrames(stk, op.ret, WordAt(stk, op.ret - sender_sp_ret_address_offset))

\* the return-pc slot of the bottom-most frame of fs on stack s
BottomReturnPc(s, fs) ==
  WordAt(s, fs[Len(fs)].sp + FrameSize(fs[Len(fs)].m) - sender_sp_ret_address_offset)

\* the thaw took the last frozen frames of the continuation: the chunk it
\* thawed from is empty and has no parent
ThawedLast == is_empty(chunks[op.wtail]) /\ chunks[op.wtail].parent = NullChunk

\* C7: after a thaw (fast bulk, fast single-frame or slow) the return-pc
\* slot of the bottom-most thawed frame holds the entry pc if and only if
\* the tail chunk was emptied and has no parent; otherwise it holds the
\* return-barrier stub address.
ThawPatchesBottomReturnPc ==
  pc = "thawed" =>
    /\ Len(ThawedFrames) = op.thawed
    /\ op.thawed > 0
    /\ BottomReturnPc(stk, ThawedFrames) = (IF ThawedLast THEN EntryPc ELSE ReturnBarrierPc)

\* a thaw has emptied a chunk that has a parent
ThawPatchesBottomReturnPcWitness ==
  /\ pc = "thawed"
  /\ is_empty(chunks[op.wtail])
  /\ chunks[op.wtail].parent # NullChunk
  /\ BottomReturnPc(stk, ThawedFrames) = ReturnBarrierPc

\* the return-pc slot of the bottom-most frame of chunk ch
ChunkBottomReturnPc(ch) ==
  ChunkWord(ch, ch.stack_size - ch.argsize - sender_sp_ret_address_offset)

FreezeSucceeded == pc = "freeze_ret" /\ op.res = freeze_ok

NoForeignFrames == \A i \in 1..Len(YieldingFrames) : IsCompiled(YieldingFrames[i].m)

TailIsCompiledOnly ==
  pre.tail # NullChunk =>
    /\ ~has_mixed_frames(pre.chunks[pre.tail])
    /\ ~is_gc_mode(pre.chunks[pre.tail])
    /\ ~requires_barriers(pre.chunks[pre.tail])

ThreadAllowsFast ==
  /\ ~entry.pinned
  /\ cont_fastpath(pre.thr)
  /\ pre.thr.held_monitor_count = 0

\* C9, as claimed: freeze takes the fast path (one bulk copy, no walk over
\* the frames) if and only if the entry is not pinned, the thread's
\* cont_fastpath flag is set, it holds no monitors, no frame between the
\* entry and the yield stub is foreign, and the tail chunk, if any, is not
\* mixed, not in GC mode and does not require barriers.
FastPathIffConditions ==
  /\ pc = "ff_copy" => (ThreadAllowsFast /\ NoForeignFrames /\ TailIsCompiledOnly)
  /\ pc = "fs_walk" => ~(ThreadAllowsFast /\ NoForeignFrames /\ TailIsCompiledOnly)

TailAvailable ==
  is_chunk_available_for_fast_freeze(pre.chunks, pre.tail, op.frame_sp, pre.argsize)

\* C9, as the code has it: freeze does its bulk copy only if the entry is
\* not pinned, the cont_fastpath flag is set and no monitor is held, and then
\* no frame is foreign; it copies into the tail chunk when that is available
\* (not mixed, not in GC mode, no barriers, room enough) and otherwise into a
\* chunk it allocates, whatever the flags of the tail.  It walks the frames
\* only if the thread does not allow the fast path, or if the tail was not
\* available and the chunk allocated requires barriers or the cont_fastpath
\* flag was lost during the allocation.
FastPathConditions ==
  /\ pc = "ff_copy" =>
       /\ ThreadAllowsFast
       /\ NoForeignFrames
       /\ IF TailAvailable
          THEN op.wtail = pre.tail /\ ~op.allocated
          ELSE /\ op.allocated
               /\ ~requires_barriers(chunks[op.wtail])
               /\ cont_fastpath(thr)
  /\ pc = "fs_walk" =>
       \/ ~ThreadAllowsFast
       \/ /\ op.path = "slow_retry"
          /\ ~TailAvailable
          /\ op.allocated
          /\ requires_barriers(chunks[op.wtail]) \/ ~cont_fastpath(thr)
  /\ (pc = "freeze_ret" /\ op.path = "pinned") => entry.pinned

\* the bulk copy is about to run although the tail chunk is mixed
FastPathConditionsWitness ==
  /\ pc = "ff_copy"
  /\ pre.tail # NullChunk
  /\ has_mixed_frames(pre.chunks[pre.tail])
  /\ ~is_empty(pre.chunks[pre.tail])

\* the steps of a freeze call
InFreeze ==
  pc \in {"freeze_internal", "ff_reuse", "ff_allocate", "ff_unwind", "ff_copy",
          "ff_patch", "ff_set_sp", "ff_set_pc", "ff_write", "fs_walk",
          "fs_finalize", "fs_unwind", "fs_copy", "fs_write", "freeze_ret"}

Published == \E i \in 1..Len(trace) : trace[i] = "write"

\* the chunk reachable from the continuation holds all the frames of the
\* freeze, its sp and pc those of the topmost of them
SeesPostFreeze ==
  /\ tail # NullChunk
  /\ FramesAreIn(chunks[tail], stk, YieldingFrames)
  /\ chunks[tail].pc = curPc
  /\ chunks[tail].sp = ChunkFrames(chunks[tail])[1].sp

\* C3, as claimed: at every step of a freeze an observer of the anchor and
\* of the chunk reachable from the continuation sees the anchor at the yield
\* stub with the chunks' headers and words as before the freeze, or the
\* anchor at the entry with the chunk holding all the frozen frames, sp and
\* pc updated.
ObserverSeesPreOrPost ==
  InFreeze =>
    \/ /\ thr.anchor = "yield"
       /\ tail = pre.tail
       /\ \A c \in 1..Len(pre.chunks) : chunks[c] = pre.chunks[c]
    \/ /\ thr.anchor = "entry"
       /\ SeesPostFreeze

\* C3, as the code has it: while the anchor is at the yield stub the tail
\* and the frames of every chunk are those from before the freeze (the
\* words, the pc and the parent of each chunk, and the sp, argsize and
\* frames of each non-empty chunk; max_size, the mixed flag and the sp and
\* argsize of an empty chunk may already be updated), and once cont.write()
\* has run the anchor is at the entry and the tail chunk holds all the frozen
\* frames with sp and pc updated.  In between, the anchor is at the entry
\* and the chunk is partly updated.
ObserverSeesPreUntilUnwound ==
  InFreeze =>
    /\ thr.anchor \in {"yield", "entry"}
    /\ thr.anchor = "yield" =>
         /\ tail = pre.tail
         /\ \A c \in 1..Len(pre.chunks) :
              /\ chunks[c].words = pre.chunks[c].words
              /\ chunks[c].pc = pre.chunks[c].pc
              /\ chunks[c].parent = pre.chunks[c].parent
              /\ is_empty(chunks[c]) = is_empty(pre.chunks[c])
              /\ ChunkFrames(chunks[c]) = ChunkFrames(pre.chunks[c])
              /\ ~is_empty(pre.chunks[c]) =>
                   /\ chunks[c].sp = pre.chunks[c].sp
                   /\ chunks[c].argsize = pre.chunks[c].argsize
    /\ Published => (thr.anchor = "entry" /\ SeesPostFreeze)

\* the anchor is at the entry while frames have been copied over those of a
\* non-empty tail chunk whose sp and pc are still the old ones
ObserverSeesPreUntilUnwoundWitness ==
  /\ pc = "ff_set_sp"
  /\ thr.anchor = "entry"
  /\ ~op.allocated
  /\ ~is_empty(pre.chunks[pre.tail])
  /\ chunks[tail].words # pre.chunks[tail].words
  /\ chunks[tail].sp = pre.chunks[tail].sp
  /\ chunks[tail].pc = pre.chunks[tail].pc

\* the positions of the events of the running freeze
Events(kinds) == {i \in 1..Len(trace) : trace[i] \in kinds}

Suspensions == Events({"safepoint", "alloc", "exception"})

\* C4: in a freeze, fast or slow, unwind_frames comes after every safepoint,
\* allocation and exception, and before the first copy of stack words into
\* the chunk; cont.write() comes after unwind_frames and after the last write
\* to the chunk; so no suspension point lies between unwind_frames and
\* cont.write().
UnwindAfterSafepointBeforeCopy ==
  /\ \A u \in Events({"unwind"}) : \A i \in Suspensions : i < u
  /\ \A i \in Events({"copy", "chunk_write"}) : \E u \in Events({"unwind"}) : u < i
  /\ \A w \in Events({"write"}) :
       /\ \E u \in Events({"unwind"}) : u < w
       /\ \A i \in Events({"copy", "chunk_write", "header_write"}) : i < w
       /\ \A i \in Suspensions : i < w
  /\ Cardinality(Events({"unwind"})) <= 1
  /\ Cardinality(Events({"write"})) <= 1

\* a freeze that went through a safepoint in the allocation, unwound,
\* copied and published
UnwindAfterSafepointBeforeCopyWitness ==
  /\ pc = "freeze_ret"
  /\ Events({"safepoint"}) # {}
  /\ Events({"unwind"}) # {}
  /\ Events({"copy"}) # {}
  /\ Events({"write"}) # {}

\* the words of the frames fs
RECURSIVE FramesWords(_)
FramesWords(fs) ==
  IF fs = <<>> THEN 0 ELSE FrameSize(fs[1].m) + FramesWords(Tail(fs))

\* the fields of the chunk after a fast freeze of the frames on the stack
\* into a new chunk without parent
FirstChunkIsExact ==
  /\ op.allocated
  /\ Len(chunks) = Len(pre.chunks) + 1
  /\ tail = Len(chunks)
  /\ chunks[tail].parent = NullChunk
  /\ chunks[tail].stack_size = FramesWords(YieldingFrames) + pre.argsize + metadata_words
  /\ chunks[tail].sp = metadata_words
  /\ chunks[tail].max_size = op.cont_size
  /\ op.cont_size = FramesWords(YieldingFrames) + pre.argsize
  /\ chunks[tail].argsize = pre.argsize
  /\ chunks[tail].pc = curPc
  /\ ChunkWord(chunks[tail], chunks[tail].sp - sender_sp_ret_address_offset) = curPc

\* C11, as claimed: a first freeze of a continuation with no tail chunk and
\* only compiled frames takes the fast path, allocates one chunk of
\* stack_size = the words of the frames + metadata_words, leaves sp =
\* metadata_words, max_size = cont_size, argsize = the entry's argsize and
\* pc = the return address of the topmost frame, makes the chunk the tail
\* with no parent, and returns freeze_ok.
FirstFreezeIsFast ==
  (pc = "freeze_ret" /\ pre.tail = NullChunk /\ NoForeignFrames) =>
    /\ op.path = "fast_alloc"
    /\ op.res = freeze_ok
    /\ FirstChunkIsExact

\* C11, as the code has it: such a freeze returns freeze_pinned_cs when the
\* entry is pinned and freeze_pinned_monitor (or freeze_exception, on stack
\* overflow in the walk) when the thread holds a monitor; otherwise it attempts the fast path and either fails with
\* freeze_exception, or retries on the slow path because the chunk allocated
\* requires barriers or the cont_fastpath flag was lost in the allocation, or
\* completes on the fast path, and then the chunk is as claimed and the
\* result is freeze_ok.
FirstFreezeIsFastIfAllowed ==
  (pc = "freeze_ret" /\ pre.tail = NullChunk /\ NoForeignFrames) =>
    /\ entry.pinned => op.res = freeze_pinned_cs
    /\ (~entry.pinned /\ pre.thr.held_monitor_count > 0) =>
         op.res \in {freeze_pinned_monitor, freeze_exception}
    /\ ThreadAllowsFast =>
         /\ op.path \in {"fast_alloc", "slow_retry"}
         /\ op.res \in {freeze_ok, freeze_exception}
         /\ op.path = "slow_retry" =>
              (op.allocated /\ (requires_barriers(chunks[op.wtail]) \/ ~cont_fastpath(thr)))
         /\ (op.path = "fast_alloc" /\ op.res = freeze_exception) => ~op.allocated
         /\ (op.path = "fast_alloc" /\ op.res = freeze_ok) => FirstChunkIsExact

\* the first freeze of two frames or more has completed on the fast path
FirstFreezeIsFastIfAllowedWitness ==
  /\ pc = "freeze_ret"
  /\ pre.tail = NullChunk
  /\ nfreeze = 1
  /\ op.path = "fast_alloc"
  /\ op.res = freeze_ok
  /\ Len(YieldingFrames) >= 2
  /\ FirstChunkIsExact

\* the chunk a thaw took its frames from, as it was before the thaw
ThawedChunk == pre.chunks[op.wtail]

ThawWasFast == op.path \in {"fast_bulk", "fast_partial"}

\* the conditions of C12
ChunkAndThreadAllowFastThaw ==
  /\ ~requires_barriers(ThawedChunk)
  /\ ~is_gc_mode(ThawedChunk)
  /\ ~has_bitmap(ThawedChunk)
  /\ ~thr.interp_only
  /\ ~PreserveFramePointer

\* C12, as claimed: thaw takes the fast path if and only if the tail chunk
\* does not require barriers, is not in GC mode and has no bitmap, the
\* thread is not in interpreter-only mode and frame pointers are not
\* preserved; and it never takes it for a chunk with mixed frames.
ThawFastIffClean ==
  pc = "thawed" =>
    /\ ThawWasFast <=> ChunkAndThreadAllowFastThaw
    /\ ThawWasFast => ~has_mixed_frames(ThawedChunk)

\* C12, as the code has it: thaw takes the fast path if and only if the
\* tail chunk does not require barriers, is not in GC mode, has no bitmap
\* and has no mixed frames, the thread is not in interpreter-only mode and
\* frame pointers are not preserved.
ThawFastIffCleanAndUnmixed ==
  pc = "thawed" =>
    (ThawWasFast <=> (ChunkAndThreadAllowFastThaw /\ ~has_mixed_frames(ThawedChunk)))

\* a slow thaw of a chunk whose only flag is that of mixed frames
ThawFastIffCleanAndUnmixedWitness ==
  /\ pc = "thawed"
  /\ op.path = "slow"
  /\ has_mixed_frames(ThawedChunk)
  /\ ChunkAndThreadAllowFastThaw

\* the live words of a chunk, the stack arguments of its bottom frame
\* included
FullChunkSize(ch) == ch.stack_size - ch.sp

\* the n words of the thawed chunk from offset o are on the stack from
\* address a, the return-pc slot below address bottom_sp excepted
CopiedToStack(o, a, n, bottom_sp) ==
  \A i \in 0..(n - 1) :
    (a + i # bottom_sp - sender_sp_ret_address_offset) =>
       WordAt(stk, a + i) = ChunkWord(ThawedChunk, o + i)

\* the chunk a thaw took its frames from is empty, with the fields of an
\* empty chunk
ThawedChunkCleared ==
  /\ chunks[op.wtail].sp = chunks[op.wtail].stack_size
  /\ chunks[op.wtail].argsize = 0
  /\ chunks[op.wtail].max_size = 0

\* C13: a fast thaw of a tail chunk whose live size is below the threshold
\* copies all the live words of the chunk and the metadata words below
\* them onto the stack so that they end at the entry (or one alignment
\* word below it), and leaves the chunk empty with sp = stack_size,
\* argsize = 0 and max_size = 0; the chunk is still the tail and its
\* parent, size and words are as they were.
BulkThawEmptiesChunk ==
  (pc = "thawed" /\ ThawWasFast /\ FullChunkSize(ThawedChunk) < threshold) =>
    LET n == FullChunkSize(ThawedChunk) IN
    /\ op.path = "fast_bulk"
    /\ op.thawed = Len(ChunkFrames(ThawedChunk))
    /\ op.ret = frame_align_pointer(entrySP - n)
    /\ op.ret + n \in {entrySP - align_wiggle, entrySP}
    /\ CopiedToStack(ThawedChunk.sp - metadata_words, op.ret - metadata_words,
                     n + metadata_words,
                     frame_align_pointer(entrySP - ThawedChunk.argsize))
    /\ ThawedChunkCleared
    /\ tail = op.wtail
    /\ chunks[op.wtail] = ClearChunk(ThawedChunk)
    /\ Len(chunks) = Len(pre.chunks)
    /\ \A c \in 1..Len(chunks) : c # op.wtail => chunks[c] = pre.chunks[c]

\* a bulk thaw from a chunk that has a parent and whose bottom frame has
\* stack arguments
BulkThawEmptiesChunkWitness ==
  /\ pc = "thawed"
  /\ op.path = "fast_bulk"
  /\ ThawedChunk.parent # NullChunk
  /\ ThawedChunk.argsize > 0
  /\ ThawedChunk.max_size > 0
  /\ ThawedChunkCleared

\* C14: a fast thaw of a tail chunk whose live size is at or above the
\* threshold thaws exactly one frame: the topmost frame, its stack
\* arguments and the metadata words below it are copied to the stack; if
\* frames remain, the chunk's sp has advanced by the frame's size, its
\* max_size has dropped by the frame's size and its pc is the return pc
\* into the next frame; if the frame was the only one, the chunk is empty
\* with sp = stack_size, argsize = 0 and max_size = 0.
SingleFrameThaw ==
  (pc = "thawed" /\ ThawWasFast /\ FullChunkSize(ThawedChunk) >= threshold) =>
    LET old        == ThawedChunk
        new        == chunks[op.wtail]
        fs         == ChunkFrames(old)
        frame_size == FrameSize(old.pc)
        argsize    == StackArgsize(old.pc)
    IN /\ op.path = "fast_partial"
       /\ op.thawed = 1
       /\ Len(ThawedFrames) = 1
       /\ ThawedFrames[1].m = old.pc
       /\ op.ret = frame_align_pointer(entrySP - (frame_size + argsize))
       /\ CopiedToStack(old.sp - metadata_words, op.ret - metadata_words,
                        frame_size + argsize + metadata_words,
                        frame_align_pointer(entrySP - argsize))
       /\ entry.argsize = argsize
       /\ tail = op.wtail
       /\ Len(fs) > 1 =>
            /\ new.sp = old.sp + frame_size
            /\ new.max_size = old.max_size - frame_size
            /\ new.pc = fs[2].m
            /\ new.pc = ChunkWord(old, fs[2].sp - sender_sp_ret_address_offset)
            /\ new = [old EXCEPT !.sp = new.sp, !.max_size = new.max_size, !.pc = new.pc]
            /\ ChunkFrames(new) = Tail(fs)
       /\ Len(fs) = 1 =>
            /\ ThawedChunkCleared
            /\ new = ClearChunk(old)

\* a single-frame thaw of a frame with stack arguments that leaves at
\* least two frames in the chunk
SingleFrameThawWitness ==
  /\ pc = "thawed"
  /\ op.path = "fast_partial"
  /\ StackArgsize(ThawedChunk.pc) > 0
  /\ Len(ChunkFrames(chunks[op.wtail])) >= 2
  /\ chunks[op.wtail].sp = ThawedChunk.sp + FrameSize(ThawedChunk.pc)

\* C15, as claimed: a thaw entered from the return barrier thaws exactly
\* one frame and then installs the next return barrier, or the entry pc
\* if nothing is left, whichever path it takes.
ReturnBarrierThawsOneFrame ==
  (pc = "thawed" /\ op.kind = thaw_return_barrier) =>
    /\ op.thawed = 1
    /\ Len(ThawedFrames) = 1
    /\ BottomReturnPc(stk, ThawedFrames) = (IF ThawedLast THEN EntryPc ELSE ReturnBarrierPc)

\* C15, as the code has it: a thaw entered from the return barrier thaws
\* exactly one frame on the slow path and on the fast path when the tail
\* chunk's live size is at or above the threshold; on the fast path with a
\* smaller chunk it thaws all the frames of the tail chunk. In each case
\* it then installs the next return barrier, or the entry pc if nothing
\* is left.
ReturnBarrierThawsOneFrameOrChunk ==
  (pc = "thawed" /\ op.kind = thaw_return_barrier) =>
    /\ op.thawed = (IF ThawWasFast /\ FullChunkSize(ThawedChunk) < threshold
                    THEN Len(ChunkFrames(ThawedChunk)) ELSE 1)
    /\ Len(ThawedFrames) = op.thawed
    /\ ThawedFrames = [i \in 1..op.thawed |->
                         [sp |-> ThawedFrames[i].sp, m |-> ChunkFrames(ThawedChunk)[i].m]]
    /\ BottomReturnPc(stk, ThawedFrames) = (IF ThawedLast THEN EntryPc ELSE ReturnBarrierPc)

\* a slow thaw from the return barrier that took one frame of several and
\* installed the next return barrier
ReturnBarrierThawsOneFrameOrChunkWitness ==
  /\ pc = "thawed"
  /\ op.kind = thaw_return_barrier
  /\ op.path = "slow"
  /\ op.thawed = 1
  /\ Len(ChunkFrames(ThawedChunk)) >= 2
  /\ BottomReturnPc(stk, ThawedFrames) = ReturnBarrierPc

\* prepare_thaw has returned
PrepareThawReturned == pc \in {"thaw", "overflow"}

\* the size prepare_thaw computed for the chunk to be thawed, in bytes
PreparedSize == thaw_size(chunks[op.wtail]) * Pow2(LogBytesPerWord)

\* the native stack below the entry has room for n more bytes
StackAccommodates(n) ==
  entrySP * Pow2(LogBytesPerWord) - n >= stack_overflow_limit(op.room)

\* C16, as claimed: prepare_thaw returns 0 whenever the native stack below
\* the entry cannot accommodate the thaw size computed for the chunk, and
\* otherwise that size in bytes, which is positive; for every size.
PrepareThawChecksEverySize ==
  PrepareThawReturned =>
    /\ op.ret \in {0, PreparedSize}
    /\ PreparedSize > 0
    /\ ~StackAccommodates(PreparedSize) => op.ret = 0
    /\ StackAccommodates(PreparedSize + PrepareThawExtra) => op.ret = PreparedSize

\* C16, as the code has it: prepare_thaw returns 0 when the thaw size
\* computed for the chunk plus 300 bytes is larger than one VM page and
\* the native stack below the entry cannot accommodate that many bytes;
\* otherwise, a size of at most one page included, it returns the thaw
\* size in bytes, which is positive.
PrepareThawChecksLargeSizes ==
  PrepareThawReturned =>
    /\ PreparedSize > 0
    /\ op.ret = (IF /\ PreparedSize + PrepareThawExtra > page_size
                    /\ ~StackAccommodates(PreparedSize + PrepareThawExtra)
                 THEN 0 ELSE PreparedSize)
    /\ (pc = "overflow") <=> (op.ret = 0)

\* prepare_thaw has returned a size smaller than a page that the native
\* stack below the entry cannot accommodate
PrepareThawChecksLargeSizesWitness ==
  /\ pc = "thaw"
  /\ op.ret = PreparedSize
  /\ PreparedSize + PrepareThawExtra <= page_size
  /\ ~StackAccommodates(PreparedSize)

\* a fast thaw follows a fast freeze of fewer words than the threshold,
\* with no Java code run in between
FastRoundTrip ==
  /\ pc = "thawed"
  /\ last.valid
  /\ last.path \in {"fast_reuse", "fast_alloc"}
  /\ last.size < threshold
  /\ ThawWasFast

\* the thaw returned the top of the frames as it was before the freeze,
\* moved down by d words, and the words of the frozen region are on the
\* stack again, each d words below where it was
RestoredWithShift(d) ==
  /\ op.ret = last.top - d
  /\ \A a \in last.top..(last.top + last.size - 1) :
       WordAt(stk, a - d) = WordAt(last.stk, a)

\* C17, as claimed: a fast freeze of a stack below the threshold followed
\* at once by a fast thaw returns the sp the topmost frame had before the
\* freeze and restores every word of the frozen region to its value before
\* the freeze, at its address or at most align_wiggle words below it; the
\* bottom frame's return-pc slot has the value it had before.
FastFreezeThawIsIdentity ==
  FastRoundTrip => \E d \in 0..align_wiggle : RestoredWithShift(d)

\* C17, as the code has it: when the freeze wrote into a chunk that held
\* no frames, the thaw returns the sp the topmost frame had before the
\* freeze and every word of the frozen region is back at its address with
\* the value it had before the freeze, the bottom frame's return-pc slot
\* included.
FastFreezeThawIsIdentityOnEmptyChunk ==
  (FastRoundTrip /\ ~last.overlap) => RestoredWithShift(0)

\* such a round trip of a frame with stack arguments on top of frames that
\* stay frozen in the parent chunk
FastFreezeThawIsIdentityOnEmptyChunkWitness ==
  /\ FastRoundTrip
  /\ ~last.overlap
  /\ entry.argsize > 0
  /\ chunks[op.wtail].parent # NullChunk
  /\ BottomReturnPc(stk, ThawedFrames) = ReturnBarrierPc
  /\ RestoredWithShift(0)

\* a freeze has succeeded that follows a freeze and a complete thaw with
\* no Java code run in between
NextCycleFrozen ==
  /\ pc = "freeze_ret"
  /\ op.res = freeze_ok
  /\ last.valid
  /\ last.complete

\* C18, as claimed: when an idle continuation is frozen again after a
\* freeze and a complete thaw, the freeze reuses the tail chunk the thaw
\* emptied and allocates nothing, and the chunk list has the chunks,
\* parent links and stack sizes it had after the freeze before.
IdleCycleKeepsChunkList ==
  NextCycleFrozen =>
    /\ ~op.allocated
    /\ tail = pre.tail
    /\ Shape(chunks, tail) = last.shape

\* C18, as the code has it: when the tail chunk emptied by the thaw is
\* still the tail and the collector has not seen it (it neither requires
\* barriers nor is in GC mode), the next freeze of the idle continuation
\* reuses it and allocates nothing, and the chunk list has the chunks,
\* parent links and stack sizes it had after the freeze before.
IdleCycleKeepsUnseenChunkList ==
  (/\ NextCycleFrozen
   /\ pre.tail # NullChunk
   /\ ~seen_by_gc(pre.chunks[pre.tail])) =>
    /\ ~op.allocated
    /\ tail = pre.tail
    /\ Shape(chunks, tail) = last.shape

\* the second fast freeze of an idle continuation into the chunk its first
\* freeze allocated
IdleCycleKeepsUnseenChunkListWitness ==
  /\ NextCycleFrozen
  /\ pre.tail # NullChunk
  /\ ~seen_by_gc(pre.chunks[pre.tail])
  /\ last.path = "fast_alloc"
  /\ op.path = "fast_reuse"
  /\ ~op.allocated
  /\ Len(last.shape.list) >= 1
  /\ Shape(chunks, tail) = last.shape

\* the chunks of the continuation that hold frames
NonEmptyChunks == {c \in Reachable(chunks, tail) : ~is_empty(chunks[c])}

FastPathChunk(ch) ==
  /\ ~has_mixed_frames(ch)
  /\ ~is_gc_mode(ch)
  /\ ~has_bitmap(ch)
  /\ ~requires_barriers(ch)

\* the fast freeze is reading or writing its chunk, or has done so
InFastFreeze ==
  \/ pc \in {"ff_unwind", "ff_copy", "ff_patch", "ff_set_sp", "ff_set_pc", "ff_write"}
  \/ pc = "freeze_ret" /\ op.res = freeze_ok /\ op.path \in {"fast_reuse", "fast_alloc"}

\* the slow freeze is past finalize_freeze: it writes frames, or has done so
InSlowFreezeCopy ==
  \/ pc \in {"fs_unwind", "fs_copy", "fs_write"}
  \/ pc = "freeze_ret" /\ op.res = freeze_ok /\ op.path \in {"slow", "slow_retry"}

MixedFlagState ==
  /\ \A c \in Reachable(chunks, tail) :
       ~has_mixed_frames(chunks[c]) =>
          \A i \in 1..Len(ChunkFrames(chunks[c])) : IsCompiled(ChunkFrames(chunks[c])[i].m)
  /\ InSlowFreezeCopy => has_mixed_frames(chunks[op.wtail])
  /\ InFastFreeze => FastPathChunk(chunks[op.wtail])
  /\ (pc = "thawed" /\ ThawWasFast) =>
        (FastPathChunk(ThawedChunk) /\ FastPathChunk(chunks[op.wtail]))

\* a step clears the flag of a chunk only if it is a slow thaw that leaves
\* the chunk empty; the returns of freeze and thaw only drop the chunks
\* that are garbage
MixedFlagStep ==
  IF pc \in {"freeze_ret", "thawed"}
  THEN chunks' = Collect(chunks, tail)
  ELSE /\ Len(chunks') >= Len(chunks)
       /\ \A c \in 1..Len(chunks) :
            (has_mixed_frames(chunks[c]) /\ ~has_mixed_frames(chunks'[c])) =>
               /\ pc = "thaw"
               /\ pc' = "thawed"
               /\ op'.path = "slow"
               /\ c = op.wtail
               /\ is_empty(chunks'[c])

MethodsOf(fs) == [i \in 1..Len(fs) |-> fs[i].m]

\* the methods of the frozen frames of the continuation, from the top of
\* chunk c through the parents
RECURSIVE ContMethods(_, _)
ContMethods(hp, c) ==
  IF c = NullChunk THEN <<>>
  ELSE MethodsOf(ChunkFrames(hp[c])) \o ContMethods(hp, hp[c].parent)

\* following parent links from c ends at null within n steps
RECURSIVE EndsWithin(_, _, _)
EndsWithin(hp, c, n) ==
  IF c = NullChunk THEN TRUE
  ELSE IF n = 0 THEN FALSE
  ELSE EndsWithin(hp, hp[c].parent, n - 1)

\* C21: after a successful freeze the tail is the chunk that received the
\* frames, the frames frozen before follow the new ones along the parent
\* links, the list is acyclic, every chunk but the tail is non-empty and
\* a chunk allocated by the freeze has the last non-empty chunk as parent;
\* a thaw takes frames from the top of the tail chunk only.
ChunkListInFreezeOrder ==
  /\ FreezeSucceeded =>
       /\ tail = op.wtail
       /\ FramesAreIn(chunks[tail], stk, YieldingFrames)
       /\ ContMethods(chunks, tail) =
            MethodsOf(YieldingFrames) \o ContMethods(pre.chunks, pre.tail)
       /\ op.allocated =>
            /\ tail = Len(chunks)
            /\ chunks[tail].parent = nonempty_chunk(pre.chunks, pre.tail)
  /\ OpCompleted =>
       /\ EndsWithin(chunks, tail, Len(chunks))
       /\ \A c \in Reachable(chunks, tail) \ {tail} : ~is_empty(chunks[c])
  /\ pc = "thawed" =>
       /\ \A c \in 1..Len(chunks) : c # op.wtail => chunks[c] = pre.chunks[c]
       /\ ContMethods(pre.chunks, op.wtail) =
            MethodsOf(ThawedFrames) \o ContMethods(chunks, op.wtail)

\* a freeze has allocated a chunk while the tail was empty and had a parent
\* with frames: the empty chunk is no longer in the list
ChunkListInFreezeOrderWitness ==
  /\ FreezeSucceeded
  /\ op.allocated
  /\ pre.tail # NullChunk
  /\ is_empty(pre.chunks[pre.tail])
  /\ chunks[tail].parent # NullChunk
  /\ chunks[tail].parent # pre.tail

\* freeze_internal has chosen the fast path, with or without the tail chunk
FastPathChosen == pc \in {"ff_reuse", "ff_allocate"}

\* the tail chunk exists and has none of the flags that rule out its reuse
TailIsUsable ==
  /\ pre.tail # NullChunk
  /\ ~is_gc_mode(pre.chunks[pre.tail])
  /\ ~requires_barriers(pre.chunks[pre.tail])
  /\ ~has_mixed_frames(pre.chunks[pre.tail])

\* C22, as claimed: the fast path reuses the tail chunk exactly when
\* chunk.sp - metadata_words >= cont_size, and allocates a chunk otherwise.
ReuseIffRoomForContSize ==
  /\ (FastPathChosen /\ TailIsUsable) =>
       (pc = "ff_reuse" <=> pre.chunks[pre.tail].sp - metadata_words >= op.cont_size)
  /\ (InFastFreeze /\ op.path = "fast_alloc") => op.allocated

\* C22, as the code has it: the fast path reuses a tail chunk that is not
\* in GC mode, requires no barriers and has no mixed frames exactly when
\* chunk.sp - metadata_words >= cont_size for an empty chunk, and
\* chunk.sp - metadata_words >= cont_size - argsize for a chunk that holds
\* frames; it allocates a chunk otherwise.
ReuseIffRoomAfterOverlap ==
  /\ FastPathChosen =>
       (pc = "ff_reuse" <=>
          /\ TailIsUsable
          /\ pre.chunks[pre.tail].sp - metadata_words >=
               op.cont_size - (IF pre.chunks[pre.tail].sp < pre.chunks[pre.tail].stack_size
                               THEN pre.argsize ELSE 0))
  /\ (InFastFreeze /\ op.path = "fast_reuse") => (~op.allocated /\ op.wtail = pre.tail)
  /\ (InFastFreeze /\ op.path = "fast_alloc") => (op.allocated /\ op.wtail = Len(chunks))

\* the tail chunk is reused although chunk.sp - metadata_words < cont_size
ReuseIffRoomAfterOverlapWitness ==
  /\ pc = "ff_reuse"
  /\ pre.chunks[pre.tail].sp < pre.chunks[pre.tail].stack_size
  /\ pre.chunks[pre.tail].sp - metadata_words < op.cont_size

\* a fast freeze has reused a tail chunk that held frames
FastReusedNonEmpty ==
  /\ pc = "freeze_ret"
  /\ op.path = "fast_reuse"
  /\ ~is_empty(pre.chunks[pre.tail])

\* the patches of the fast freeze into a chunk that held frames, and the
\* walk over the chunk afterwards
FastReusePatches ==
  LET old == pre.chunks[pre.tail]
      new == chunks[tail]
      n   == Len(YieldingFrames)
  IN /\ new.sp = old.sp + pre.argsize - op.cont_size
     /\ ChunkWord(new, old.sp - sender_sp_ret_address_offset) = old.pc
     /\ new.pc = curPc
     /\ new.pc = WordAt(stk, ContStackTop(op.frame_sp) - sender_sp_ret_address_offset)
     /\ MethodsOf(ChunkFrames(new)) = MethodsOf(YieldingFrames) \o MethodsOf(ChunkFrames(old))
     /\ SubSeq(ChunkFrames(new), n + 1, Len(ChunkFrames(new))) = ChunkFrames(old)

\* C23, as claimed: when fast freeze reuses a non-empty tail chunk, the
\* return-pc slot of the bottom-most new frame holds the pc the chunk had,
\* chunk.pc is the return address of the topmost new frame, a walk from
\* the new sp visits the new frames and then the old ones, and no word of
\* the frames that were in the chunk has changed.
FastReuseKeepsOldFrames ==
  FastReusedNonEmpty =>
    /\ FastReusePatches
    /\ \A o \in pre.chunks[pre.tail].sp..(pre.chunks[pre.tail].stack_size - 1) :
         ChunkWord(chunks[tail], o) = ChunkWord(pre.chunks[pre.tail], o)

\* C23, as the code has it: the same, but the first argsize words of the
\* frame that was topmost in the chunk, where it passes the stack
\* arguments of the bottom-most new frame, are overwritten with the words
\* the stack holds there; the other words of the old frames are unchanged.
FastReuseKeepsOldFramesButArgs ==
  FastReusedNonEmpty =>
    /\ FastReusePatches
    /\ \A o \in pre.chunks[pre.tail].sp..(pre.chunks[pre.tail].stack_size - 1) :
         ChunkWord(chunks[tail], o) =
           (IF o < pre.chunks[pre.tail].sp + pre.argsize
            THEN WordAt(stk, ContStackBottom(pre.argsize) - pre.argsize
                               + (o - pre.chunks[pre.tail].sp))
            ELSE ChunkWord(pre.chunks[pre.tail], o))

\* such a freeze after the frozen frame has stored into its stack argument
FastReuseKeepsOldFramesButArgsWitness ==
  /\ FastReusedNonEmpty
  /\ pre.argsize > 0
  /\ ChunkWord(chunks[tail], pre.chunks[pre.tail].sp) = Dirty
  /\ ChunkWord(pre.chunks[pre.tail], pre.chunks[pre.tail].sp) # Dirty
  /\ Len(ChunkFrames(chunks[tail])) >= 2

\* frame i of the yielding frames cannot be frozen
Disqualified(i) ==
  \/ ~IsCompiled(YieldingFrames[i].m)
  \/ YieldingFrames[i].sp \in locks

\* the result the first disqualified frame of the walk gives
PinnedBy(i) ==
  IF ~IsCompiled(YieldingFrames[i].m) THEN freeze_pinned_native ELSE freeze_pinned_monitor

----------------------------------------------------------------------------
\* the freeze has failed in the walk or in the allocation of a chunk
FreezeFailed == pc = "freeze_ret" /\ op.cause # "none"

----------------------------------------------------------------------------
\* the freeze has allocated its chunk in freeze_fast
FastAllocated == InFreeze /\ op.allocated /\ op.path \in {"fast_alloc", "slow_retry"}

\* the allocation in freeze_fast went through the slow allocator, which may
\* safepoint
FastAllocSafepointed ==
  \E i \in 2..Len(trace) :
    /\ trace[i] = "alloc" /\ trace[i - 1] = "safepoint"
    /\ \A j \in 1..(i - 1) : trace[j] # "alloc"

\* the retry starts from an untouched stack and untouched chunks, and the slow
\* path freezes into the chunk freeze_fast allocated
RetryIsClean ==
  /\ Len(chunks) = Len(pre.chunks) + 1
  /\ op.wtail = Len(chunks)
  /\ SubSeq(chunks, 1, Len(pre.chunks)) = pre.chunks
  /\ pc \in {"fs_walk", "fs_finalize"} =>
       /\ stk = pre.stk
       /\ thr.anchor = pre.thr.anchor
       /\ is_empty(chunks[op.wtail])
       /\ Events({"unwind", "copy", "chunk_write", "write"}) = {}
  /\ (pc = "freeze_ret" /\ op.res = freeze_ok) =>
       /\ tail = op.wtail
       /\ FramesAreIn(chunks[tail], stk, YieldingFrames)

\* C26 as stated: on the allocating fast path, an allocation that went
\* through a safepoint or gave a chunk requiring barriers makes freeze_fast
\* give up before it copies or unwinds, and the slow path freezes into the
\* chunk just allocated.
SafepointOrBarriersRetrySlow ==
  FastAllocated =>
    /\ (FastAllocSafepointed \/ requires_barriers(chunks[op.wtail])) => op.path = "slow_retry"
    /\ op.path = "slow_retry" => RetryIsClean

\* C26: on the allocating fast path, freeze_fast gives up exactly when the
\* thread has lost cont_fastpath during the allocation or the chunk allocated
\* requires barriers; it has then copied nothing and unwound nothing, and the
\* slow path freezes into the chunk just allocated.  An allocation through the
\* slow allocator alone does not end the fast path.
LostFastpathOrBarriersRetrySlow ==
  FastAllocated =>
    /\ (op.path = "slow_retry") = (~cont_fastpath(thr) \/ requires_barriers(chunks[op.wtail]))
    /\ op.path = "slow_retry" => RetryIsClean

LostFastpathOrBarriersRetrySlowWitness ==
  /\ FastAllocated
  /\ op.path = "slow_retry"
  /\ pc = "freeze_ret"
  /\ op.res = freeze_ok
  /\ requires_barriers(chunks[tail])
  /\ FastAllocSafepointed

----------------------------------------------------------------------------
\* the chunk was there before this freeze and the collector has seen it
PreExistingSeenChunk(c) ==
  c \in 1..Len(pre.chunks) /\ (is_gc_mode(pre.chunks[c]) \/ requires_barriers(pre.chunks[c]))

\* the store barriers have been applied in this freeze
BarriersApplied == Events({"barriers"}) # {}

\* C27: a slow freeze writes no frame into a chunk that was there before the
\* freeze and is in GC mode or requires barriers, it allocates a chunk instead;
\* the store barriers are applied over the chunk exactly when the chunk
\* allocated in this freeze requires barriers, after the last write of a
\* frame and before cont.write().
SlowFreezeBarriers ==
  InSlowFreezeCopy =>
    /\ ~PreExistingSeenChunk(op.wtail)
    /\ \A c \in 1..Len(pre.chunks) : PreExistingSeenChunk(c) => chunks[c] = pre.chunks[c]
    /\ (pre.tail # NullChunk /\ PreExistingSeenChunk(pre.tail)) =>
         (op.allocated /\ op.wtail > Len(pre.chunks))
    /\ pc \in {"fs_write", "freeze_ret"} =>
         (BarriersApplied = (op.allocated /\ requires_barriers(chunks[op.wtail])))
    /\ \A b \in Events({"barriers"}) :
         /\ \A i \in Events({"copy", "chunk_write", "header_write", "unwind"}) : i < b
         /\ \A w \in Events({"write"}) : b < w
    /\ pc = "freeze_ret" => Events({"write"}) # {}

SlowFreezeBarriersWitness ==
  /\ pc = "freeze_ret"
  /\ op.res = freeze_ok
  /\ op.path = "slow"
  /\ pre.tail # NullChunk
  /\ PreExistingSeenChunk(pre.tail)
  /\ ~is_empty(pre.chunks[pre.tail])
  /\ BarriersApplied
  /\ Len(YieldingFrames) >= 2

----------------------------------------------------------------------------
\* the slow freeze writes into a chunk that held frames before the freeze
SlowReusedNonEmpty == op.wtail \in 1..Len(pre.chunks) /\ ~is_empty(pre.chunks[op.wtail])

\* the words of the frames being frozen, the stack arguments of the bottom
\* one included
SlowTotalSize == FramesWords(YieldingFrames) + op.argsize

----------------------------------------------------------------------------
\* the addresses of the stack words the thaw has written: the stack below
\* the entry holds no live word when a thaw begins
ThawChangedWords == {entrySP - i : i \in {j \in 1..Len(stk) : stk[j] # Junk}}

----------------------------------------------------------------------------
\* the frames frozen in chunk c and in the chunks behind it, before the thaw
FrozenBehind(c) == IF c = NullChunk THEN 0 ELSE FrozenFrameCount(pre.chunks, c)

----------------------------------------------------------------------------
\* the slow thaw of the mixed chunk has returned and frames are left in the
\* chunk
WalkLeftFrames == thawWalk.phase = "done" /\ thawWalk.k < Len(thawWalk.frames)

\* the last frame thawed and the frame left on top of the chunk
WalkLastThawed == thawWalk.frames[thawWalk.k]
WalkLeftOnTop  == thawWalk.frames[thawWalk.k + 1]

\* the frames a slow thaw is asked for
WalkAsked == thaw_slow_num_frames(thawWalk.return_barrier)

\* C31 as stated: a slow thaw thaws an extra frame at a boundary of either
\* direction, so the frame left on top of a non-empty chunk is of the kind of
\* the frame thawed last.
SlowThawLeavesNoMixedBoundary ==
  WalkLeftFrames => WalkLastThawed.kind = WalkLeftOnTop.kind

\* C31: a slow thaw that would stop at an interpreted frame whose caller in
\* the chunk is compiled thaws that caller as one extra frame, so a compiled
\* frame is never left on top of the chunk below an interpreted frame thawed
\* last; a slow thaw that stops at a compiled frame whose caller is
\* interpreted thaws no extra frame and leaves the interpreted caller on top.
SlowThawLeavesNoCompiledCaller ==
  thawWalk.phase = "done" =>
    /\ thawWalk.k \in {Min(WalkAsked, Len(thawWalk.frames)), WalkAsked + 1}
    /\ thawWalk.k = WalkAsked + 1 =>
         /\ is_interpreted_frame(thawWalk.frames[WalkAsked])
         /\ ~is_interpreted_frame(thawWalk.frames[WalkAsked + 1])
    /\ WalkLeftFrames =>
         ~(is_interpreted_frame(WalkLastThawed) /\ ~is_interpreted_frame(WalkLeftOnTop))
    /\ (WalkLeftFrames /\ ~is_interpreted_frame(thawWalk.frames[WalkAsked])) =>
         thawWalk.k = WalkAsked

SlowThawLeavesNoCompiledCallerWitness ==
  /\ WalkLeftFrames
  /\ thawWalk.k = WalkAsked + 1
  /\ is_interpreted_frame(thawWalk.frames[WalkAsked])
  /\ ~is_interpreted_frame(WalkLastThawed)
  /\ is_interpreted_frame(WalkLeftOnTop)

----------------------------------------------------------------------------
\* the flags of a chunk
ChunkFlags(ch) == <<ch.mixed, ch.gc_mode, ch.bitmap, ch.barriers>>

----------------------------------------------------------------------------
\* frame i of the mixed chunk was thawed interpreted or deoptimized
WalkSlowFrame(i) ==
  \/ is_interpreted_frame(thawWalk.frames[i])
  \/ thawWalk.frames[i].deopt
  \/ i \in thawWalk.deoptimized

\* the thawed frames that are interpreted or deoptimized
WalkSlowFrames == {i \in 1..thawWalk.k : WalkSlowFrame(i)}

\* C33: after a slow thaw the thread's fast-path marker is the highest stack
\* address of the frames thawed in the call that are interpreted or
\* deoptimized, the compiled frames deoptimized in place included, and it is
\* cleared when there is none; a freeze that follows takes the fast path only
\* if no such frame is still on the stack.
FastpathMarkerAfterSlowThaw ==
  /\ thawWalk.phase = "done" =>
       /\ \A i \in 1..thawWalk.k :
            (i \in thawWalk.deoptimized) =
              (/\ ~is_interpreted_frame(thawWalk.frames[i])
               /\ ~thawWalk.frames[i].deopt
               /\ (thawWalk.interp_only \/ (thawWalk.preempted /\ thawWalk.frames[i].marked)))
       /\ WalkSlowFrames = {} => thawWalk.thread_fastpath = 0
       /\ WalkSlowFrames # {} =>
            /\ \E i \in WalkSlowFrames : thawWalk.thread_fastpath = thawWalk.sps[i]
            /\ \A i \in WalkSlowFrames : thawWalk.sps[i] <= thawWalk.thread_fastpath
  /\ (thawWalk.phase = "freeze" /\ thawWalk.fast) =>
       \A i \in WalkSlowFrames : i <= thawWalk.returned

FastpathMarkerAfterSlowThawWitness ==
  /\ thawWalk.phase = "freeze"
  /\ thawWalk.fast
  /\ WalkSlowFrames # {}
  /\ thawWalk.returned < thawWalk.k

----------------------------------------------------------------------------
\* C34: prepare_thaw replaces an empty tail chunk by its parent and changes
\* no chunk, also when it returns 0 for a stack overflow; after it the tail
\* is not empty, and the thaw that follows takes its frames from that chunk
\* and from no other.
PrepareThawDropsEmptyTail ==
  /\ pc \in {"thaw", "overflow", "thawed"} =>
       /\ pre.tail # NullChunk
       /\ op.wtail = (IF is_empty(pre.chunks[pre.tail])
                      THEN pre.chunks[pre.tail].parent ELSE pre.tail)
       /\ op.wtail # NullChunk
       /\ ~is_empty(pre.chunks[op.wtail])
  /\ pc \in {"thaw", "overflow"} =>
       /\ tail = op.wtail
       /\ chunks = pre.chunks
       /\ (pc = "overflow") = (op.ret = 0)
  /\ pc = "thawed" =>
       /\ DOMAIN chunks = DOMAIN pre.chunks
       /\ \A c \in DOMAIN chunks : c # op.wtail => chunks[c] = pre.chunks[c]
       /\ Len(ChunkFrames(chunks[op.wtail])) + op.thawed
            = Len(ChunkFrames(pre.chunks[op.wtail]))
       /\ op.thawed >= 1

\* prepare_thaw has dropped an empty tail and returned 0
PrepareThawDropsEmptyTailWitness ==
  /\ pc = "overflow"
  /\ tail # pre.tail
  /\ is_empty(pre.chunks[pre.tail])

----------------------------------------------------------------------------
\* chunk word w holds a caller-side argument of frame i: a stack argument of
\* a compiled frame, above the frame, or a local of an interpreted one, at
\* the frame's bottom
WalkArgumentWord(fs, i, w) ==
  LET frame_bottom == WalkHeapSp(fs, i) + WalkFrameSize(fs[i]) IN
    IF is_interpreted_frame(fs[i])
    THEN frame_bottom - fs[i].args <= w /\ w < frame_bottom
    ELSE frame_bottom <= w /\ w < frame_bottom + fs[i].args

\* C35: in a slow thaw of a chunk with an oop bitmap, once the bottom-most
\* thawed frame has been copied out the bits of the chunk words that hold
\* its caller-side arguments are cleared and no other bit has changed.
SlowThawClearsArgumentBits ==
  /\ thawWalk.phase \in {"done", "freeze"} =>
       \A w \in WalkChunkWords(thawWalk.frames) :
         (w \in thawWalk.bitmap) =
           (thawWalk.has_bitmap /\ ~WalkArgumentWord(thawWalk.frames, thawWalk.k, w))
  /\ (thawWalk.phase = "copy" /\ thawWalk.cur = thawWalk.k /\ thawWalk.has_bitmap) =>
       thawWalk.bitmap = WalkChunkWords(thawWalk.frames)
  /\ thawWalk.phase # "idle" => thawWalk.bitmap \subseteq WalkChunkWords(thawWalk.frames)

\* the bottom-most thawed frame has stack arguments and a caller in the chunk
SlowThawClearsArgumentBitsWitness ==
  /\ thawWalk.phase = "done"
  /\ thawWalk.has_bitmap
  /\ thawWalk.k >= 2
  /\ thawWalk.k < Len(thawWalk.frames)
  /\ ~is_interpreted_frame(thawWalk.frames[thawWalk.k])
  /\ thawWalk.frames[thawWalk.k].args > 0
  /\ thawWalk.frames[1].args > 0
  /\ thawWalk.bitmap # WalkChunkWords(thawWalk.frames)

----------------------------------------------------------------------------
\* the entry at which the walk stops: the innermost one of the scope asked
\* for, or the outermost
PinLastEntry ==
  LET es == pinWalk.entries
      same == {j \in 1..Len(es) : es[j].scope = pinWalk.cont_scope}
  IN IF same = {} THEN Len(es) ELSE CHOOSE j \in same : \A i \in same : j <= i

\* what pins frame f: a monitor it owns, or its being native or no Java frame
PinFrameReason(f) ==
  IF f.kind # "stub" /\ f.owning_locks THEN freeze_pinned_monitor
  ELSE IF f.kind = "stub" \/ f.native THEN freeze_pinned_native
  ELSE freeze_ok

\* the pin reasons on the way from the yield frame to the last frame of
\* PinLastEntry's continuation, each with its place: frame i at 2i, the
\* crossing into entry j just before the entry frame of entry j - 1
PinReasons ==
  LET es == pinWalk.entries
      fs == PinFrames(es, pinWalk.entry_frame)
  IN {<<2 * i, PinFrameReason(fs[i])>> :
         i \in {n \in 1..(PinEntryFrame(es, PinLastEntry) - 1) :
                  PinFrameReason(fs[n]) # freeze_ok}}
     \cup {<<2 * PinEntryFrame(es, j - 1) - 1, freeze_pinned_cs>> :
            j \in {n \in 1..PinLastEntry : es[n].pinned}}

\* C36: is_pinned0 returns 0 when no continuation is mounted; otherwise the
\* first pin reason on the way outwards from the yield frame (the pinned
\* innermost entry before any frame, a frame that owns a monitor or is
\* native or not Java, an enclosing pinned entry when it is crossed into),
\* and 0 when the frames of the continuation of the scope asked for have been
\* examined or no entry encloses; the walk always ends.
IsPinned0FirstReason ==
  /\ [](pinWalk.phase = "done" =>
         /\ pinWalk.entries = <<>> => pinWalk.res = freeze_ok
         /\ (pinWalk.entries # <<>> /\ PinReasons = {}) => pinWalk.res = freeze_ok
         /\ (pinWalk.entries # <<>> /\ PinReasons # {}) =>
              \E r \in PinReasons : /\ pinWalk.res = r[2]
                                    /\ \A q \in PinReasons : r[1] <= q[1])
  /\ <>(pinWalk.phase = "done")

\* the walk has crossed a continuation of another scope into a pinned entry
IsPinned0FirstReasonWitness ==
  /\ pinWalk.phase = "done"
  /\ Len(pinWalk.entries) = 2
  /\ pinWalk.entries[1].scope # pinWalk.cont_scope
  /\ pinWalk.entries[2].pinned
  /\ pinWalk.res = freeze_pinned_cs
  /\ pinWalk.steps = Len(pinWalk.entries[1].frames)

----------------------------------------------------------------------------
\* the frozen frames of the continuation before the thaw stub was entered
FrozenBefore == FrozenFrameCount(pre.chunks, pre.tail)

\* the frozen frames of the continuation now
FrozenNow == FrozenFrameCount(chunks, tail)

\* C37: every thaw of a non-empty continuation takes at least one frame from
\* the tail chunk, so the number of frozen frames strictly decreases with
\* each prepare_thaw / thaw pair and reaches zero after at most as many
\* thaws as there were frames; the thaw that reaches zero, and no other,
\* installs the entry pc instead of the return barrier.
ThawsDrainContinuation ==
  /\ pc \in {"prepare_thaw", "thaw"} => FrozenNow > 0 /\ FrozenNow = FrozenBefore
  /\ pc = "thawed" =>
       /\ op.thawed >= 1
       /\ FrozenBefore > 0
       /\ FrozenNow = FrozenBefore - op.thawed
       /\ Len(ChunkFrames(chunks[op.wtail])) = Len(ChunkFrames(pre.chunks[op.wtail])) - op.thawed
       /\ (FrozenNow = 0) = (BottomReturnPc(stk, ThawedFrames) = EntryPc)
       /\ (FrozenNow > 0) = (BottomReturnPc(stk, ThawedFrames) = ReturnBarrierPc)

\* the second thaw in a row, through the return barrier, takes the last
\* frames
ThawsDrainContinuationWitness ==
  /\ pc = "thawed"
  /\ op.kind # thaw_top
  /\ FrozenNow = 0
  /\ FrozenBefore >= 1
  /\ BottomReturnPc(stk, ThawedFrames) = EntryPc

----------------------------------------------------------------------------
\* the fast freeze has copied the frames into the tail chunk it found
FastReuseCopied ==
  /\ pc = "ff_patch"
  /\ pre.tail # NullChunk
  /\ op.wtail = pre.tail
  /\ ~op.allocated

\* the chunk indices the copy has written, lowest and highest
FastCopyLowest == op.chunk_new_sp - metadata_words
FastCopyHighest == op.chunk_new_sp + op.cont_size - 1

\* C38, as claimed: the copy of a fast freeze into a reused tail chunk, empty
\* or not, stays inside the chunk: the new sp is at least metadata_words and
\* the highest written index is below the old sp plus argsize, which is at
\* most stack_size.
FastReuseCopyBelowSpPlusArgsize ==
  FastReuseCopied =>
    LET old == pre.chunks[pre.tail] IN
      /\ op.chunk_new_sp >= metadata_words
      /\ FastCopyLowest >= 0
      /\ FastCopyHighest < old.sp + entry.argsize
      /\ old.sp + entry.argsize <= old.stack_size

\* C38, as the code has it: the copy stays inside the chunk: the new sp is
\* at least metadata_words and the highest written index is below
\* chunk_start_sp, which is the old sp plus argsize for a chunk that holds
\* frames and the old sp, equal to stack_size, for an empty one.
FastReuseCopyInsideChunk ==
  FastReuseCopied =>
    LET old == pre.chunks[pre.tail]
        new == chunks[op.wtail]
    IN /\ op.chunk_new_sp >= metadata_words
       /\ FastCopyLowest >= 0
       /\ FastCopyHighest < op.chunk_start_sp
       /\ op.chunk_start_sp = (IF old.sp < old.stack_size THEN old.sp + entry.argsize
                                                          ELSE old.stack_size)
       /\ op.chunk_start_sp <= old.stack_size
       /\ DOMAIN new.words = DOMAIN old.words
       /\ \A o \in 0..(old.stack_size - 1) :
            (o < FastCopyLowest \/ o > FastCopyHighest) => ChunkWord(new, o) = ChunkWord(old, o)

\* an empty chunk is reused by a continuation whose bottom frame has stack
\* arguments, and the copy ends at the chunk's last word
FastReuseCopyInsideChunkWitness ==
  /\ FastReuseCopied
  /\ is_empty(pre.chunks[pre.tail])
  /\ entry.argsize > 0
  /\ FastCopyHighest = pre.chunks[pre.tail].stack_size - 1

----------------------------------------------------------------------------
\* C39: after every operation, a chunk that only fast freezes have written
\* and only fast thaws have read has max_size = stack_size - sp (after a
\* fresh allocation, the reuse of an empty chunk, a reuse with overlap, a
\* bulk thaw and a single-frame thaw), and no chunk has a negative max_size
\* after a freeze or thaw of either path.
FastOnlyMaxSize ==
  /\ OpCompleted =>
       \A c \in DOMAIN chunks :
         chunks[c].fast_only => chunks[c].max_size = chunks[c].stack_size - chunks[c].sp
  /\ \A c \in DOMAIN chunks : chunks[c].max_size >= 0

\* a fast freeze has put frames on top of the frames a single-frame thaw left
\* in a chunk no slow path has touched
FastOnlyMaxSizeWitness ==
  /\ pc = "freeze_ret"
  /\ op.path = "fast_reuse"
  /\ ~is_empty(pre.chunks[pre.tail])
  /\ entry.argsize > 0
  /\ chunks[tail].fast_only
  /\ chunks[tail].max_size > op.cont_size

----------------------------------------------------------------------------
\* the bottom-most of the frames fs
BottomFrame(fs) == fs[Len(fs)]

\* the bottom-most frame of fs is the one the entry's argsize describes: it
\* has that many stack arguments and they end, alignment padding apart, at
\* the entry
BottomFrameMatchesEntry(fs) ==
  /\ StackArgsize(BottomFrame(fs).m) = entry.argsize
  /\ BottomFrame(fs).sp + FrameSize(BottomFrame(fs).m) = BottomAddress(entry.argsize)
  /\ BottomAddress(entry.argsize) + entry.argsize = ContStackBottom(entry.argsize)

====
